---- MODULE Spec2Model ----
(***************************************************************************)
(* State-machine model of the subspace automation core: the JSON-backed    *)
(* Storage (profiles + action ledger), the Connector (connection state     *)
(* machine and daily/hourly budget), the Stealth activity gate and         *)
(* cooldown.  Time is the wall clock in seconds since local midnight of    *)
(* day 0; every read of time.Now() in the source is a read of `now` plus   *)
(* the time the operation has spent so far.                                 *)
(***************************************************************************)
EXTENDS Integers, Naturals, Sequences, FiniteSets, TLC

\* ------------------------------------------------------------------ bounds
MaxProfiles == 3
MaxLog == 4
MaxLimit == 2
MaxConnectProfiles == 2
MaxConnectLog == 2
Horizon == 36030
MaxMessageProfiles == 2
MaxMessageLog == 5
MaxModuleProfiles == 1
ModulesHorizon == 36010
MaxLoginLog == 8
IntWidth == 8
MaxText == 2
MaxGoroutines == 2
CooldownHorizon == 36060
WaitHorizon == 187200

\* ------------------------------------------------------- program constants
Minute == 60
Hour == 3600
Day == 86400
ConnectionCooldownSeconds == 30
MessageCooldownSeconds == 60
DefaultMessagesPerDay == 30
CheckpointRetries == 3
LoginRetrySeconds == 5
DefaultConnectionsPerDay == 50
DefaultConnectionsPerHour == 10
DefaultSearchesPerDay == 20

\* nil *time.Time of a Profile, and the zero time.Time of lastActionTime
NoTime == -1
ZeroTime == -1

ProfileIds == 1..MaxProfiles
NoProfile == 0

StateDiscovered == "discovered"
StateRequested == "requested"
StateAccepted == "accepted"
StateCooledDown == "cooled_down"
StateRejected == "rejected"
ProfileStates == {StateDiscovered, StateRequested, StateAccepted, StateCooledDown, StateRejected}

VARIABLES
    now,             \* wall clock (time.Now()), seconds since midnight of day 0
    limits,          \* config.LimitsConfig held by the Connector
    stealthConfig,   \* config.StealthConfig: business hours and break window
    storage,         \* Storage: data (in memory) and file (db.json as last written)
    lastActionTime,  \* package-level variable of stealth
    cooldownCall,    \* the last EnforceCooldown call: its argument, its sleep, its return
    batch,           \* ProcessDailyConnections in progress: its local variables
    mu,              \* Storage.mu, the sync.RWMutex of the storage
    goroutines,      \* the goroutines calling in concurrently: position and locals
    ret              \* the call that returned in this step, and its result

vars == <<now, limits, stealthConfig, storage, lastActionTime, cooldownCall, batch, mu,
         goroutines, ret>>

profiles == storage.data.Profiles
messages == storage.data.Messages
ledger == storage.data.ActionLogs

\* ------------------------------------------------------------ small helpers
Min(a, b) == IF a < b THEN a ELSE b

\* time.Time.After
After(t, u) == t > u

\* ----------------------------------------------------------------- Storage
\* Storage.save: marshal data and os.WriteFile it; ok = FALSE is an I/O error,
\* which leaves the file as it was.
save(st, ok) == IF ok THEN [st EXCEPT !.file = st.data] ELSE st

\* Storage.SaveProfile
SaveProfile(st, profile, ok) ==
    save([st EXCEPT !.data.Profiles = (profile.ID :> profile) @@ @], ok)

\* a faulty LogAction, which puts the new record first: C11 must tell it apart
LogActionPrepending(st, action, profileID, success, errText, t, ok) ==
    save([st EXCEPT !.data.ActionLogs =
              <<[Action |-> action, Timestamp |-> t, ProfileID |-> profileID,
                 Success |-> success, Error |-> errText]>> \o @], ok)

\* Storage.LogAction
LogAction(st, action, profileID, success, errText, t, ok) ==
    save([st EXCEPT !.data.ActionLogs =
              Append(@, [Action |-> action, Timestamp |-> t, ProfileID |-> profileID,
                         Success |-> success, Error |-> errText])], ok)

\* Storage.GetProfilesByState (the ids of the profiles returned)
GetProfilesByState(st, state) ==
    {id \in DOMAIN st.data.Profiles : st.data.Profiles[id].State = state}

\* a faulty ProfileExists, which finds no URL: C35 must tell it apart
ProfileExistsNever(st, url) == FALSE

\* Storage.ProfileExists
ProfileExists(st, url) ==
    \E id \in DOMAIN st.data.Profiles : st.data.Profiles[id].ProfileURL = url

\* Storage.SaveMessage
SaveMessage(st, message, ok) ==
    save([st EXCEPT !.data.Messages = (message.ID :> message) @@ @], ok)

\* Storage.GetMessagesByProfile (the ids of the messages returned)
GetMessagesByProfile(st, profileID) ==
    {id \in DOMAIN st.data.Messages : st.data.Messages[id].ProfileID = profileID}

\* Storage.CleanOldLogs called at time t
CleanOldLogs(st, retentionDays, t, ok) ==
    LET cutoff == t - retentionDays * Day
        keep(log) == After(log.Timestamp, cutoff)
    IN save([st EXCEPT !.data.ActionLogs = SelectSeq(@, keep)], ok)

\* the loop of Storage.GetActionCountSince from index i on
RECURSIVE CountFrom(_, _, _, _)
CountFrom(logs, i, action, since) ==
    IF i > Len(logs) THEN 0
    ELSE (IF logs[i].Action = action /\ logs[i].Success /\ After(logs[i].Timestamp, since)
          THEN 1 ELSE 0) + CountFrom(logs, i + 1, action, since)

\* Storage.GetActionCountSince
GetActionCountSince(st, action, since) == CountFrom(st.data.ActionLogs, 1, action, since)

\* startOfDay of Storage.GetActionCountToday
StartOfDay(t) == t - (t % Day)

\* Storage.GetActionCountToday, called at time t
GetActionCountToday(st, action, t) == GetActionCountSince(st, action, StartOfDay(t))

\* Storage.GetActionCountLastHour, called at time t
GetActionCountLastHour(st, action, t) == GetActionCountSince(st, action, t - Hour)

\* ----------------------------------------------------------------- Stealth
\* the code of ':' in an HH:MM string whose digits are coded 0..9 (':' sorts
\* above every digit, as in ASCII)
Colon == 10

\* time.Format("15:04")
FormatHHMM(t) ==
    LET m == (t % Day) \div Minute
        hh == m \div 60
        mm == m % 60
    IN <<hh \div 10, hh % 10, Colon, mm \div 10, mm % 10>>

\* Go's string <= : lexicographic on the bytes
RECURSIVE StrLeq(_, _)
StrLeq(a, b) ==
    IF a = <<>> THEN TRUE
    ELSE IF b = <<>> THEN FALSE
    ELSE IF Head(a) < Head(b) THEN TRUE
    ELSE IF Head(a) > Head(b) THEN FALSE
    ELSE StrLeq(Tail(a), Tail(b))

\* Stealth.isTimeInRange
isTimeInRange(current, start, end) == StrLeq(start, current) /\ StrLeq(current, end)

\* Stealth.CheckBusinessHours, called at time t
CheckBusinessHours(cfg, t) ==
    IF ~cfg.BusinessHoursEnabled THEN TRUE
    ELSE LET currentTime == FormatHHMM(t)
             inBusinessHours == isTimeInRange(currentTime, cfg.BusinessHoursStart, cfg.BusinessHoursEnd)
             inBreakTime == IF cfg.BreakTimeEnabled
                            THEN isTimeInRange(currentTime, cfg.BreakTimeStart, cfg.BreakTimeEnd)
                            ELSE FALSE
         IN inBusinessHours /\ ~inBreakTime

\* a faulty remaining sleep, the time already elapsed: C9 must tell it apart
CooldownElapsed(last, t, minDelaySeconds) == t - last

\* the remaining sleep of Stealth.EnforceCooldown called at time t
CooldownRemaining(last, t, minDelaySeconds) ==
    LET elapsed == t - last
        required == minDelaySeconds
    IN IF elapsed < required THEN required - elapsed ELSE 0

\* a faulty EnforceCooldown, which never looks at the last grant: C23 must tell
\* it apart
EnforceCooldownUnshared(last, t, minDelaySeconds, over) ==
    [last |-> t, waited |-> 0]

\* Stealth.EnforceCooldown called at time t; over is what time.Sleep oversleeps.
\* The result is the new lastActionTime (the time of return) and the sleep.
EnforceCooldown(last, t, minDelaySeconds, over) ==
    IF last = ZeroTime THEN [last |-> t, waited |-> 0]
    ELSE LET remaining == CooldownRemaining(last, t, minDelaySeconds)
             slept == IF remaining > 0 THEN remaining + over ELSE 0
         IN [last |-> t + slept, waited |-> slept]

\* --------------------------------------------------------------- Connector
\* Connector.CanSendMore, called at time t
CanSendMore(st, lim, t) ==
    LET today == GetActionCountToday(st, "connection", t)
        hourly == GetActionCountLastHour(st, "connection", t)
    IN today < lim.ConnectionsPerDay /\ hourly < lim.ConnectionsPerHour

\* a faulty SendConnectionRequest, which logs nothing: C8 must tell it apart
SendConnectionRequestUnlogged(st, id, t, ok1, ok2) ==
    LET profile == [st.data.Profiles[id] EXCEPT !.State = StateRequested, !.RequestedAt = t]
    IN [st |-> SaveProfile(st, profile, ok1), err |-> ~ok1]

\* Connector.SendConnectionRequest on the stored profile id; t is time.Now() of
\* step 9, ok1 and ok2 whether the two saves succeed.
SendConnectionRequest(st, id, t, ok1, ok2) ==
    LET profile == [st.data.Profiles[id] EXCEPT !.State = StateRequested, !.RequestedAt = t]
        s1 == SaveProfile(st, profile, ok1)
    IN IF ~ok1 THEN [st |-> s1, err |-> TRUE]
       ELSE [st |-> LogAction(s1, "connection", id, TRUE, "", t, ok2), err |-> FALSE]

\* ProcessDailyConnections is not running
Idle == [pc |-> "idle", todo |-> {}, sent |-> 0, maxToSend |-> 0]

\* the error value a call returns: nil, or an error made with fmt.Errorf
ErrNil == "nil"
ErrError == "error"

NoCall == [op |-> "none", id |-> NoProfile, err |-> ErrNil]

NoCooldownCall == [m |-> 0, waited |-> 0, granted |-> NoTime]

\* the zero sync.RWMutex: w is the goroutine that holds the writer side (0:
\* none), readers the number of read locks held
Unlocked == [w |-> 0, readers |-> 0]

\* what one connection request takes (navigation, pauses, mouse moves), seconds
RequestDurations == {10, 20}

\* the instants at which the orchestrator may next call in
Instants == {Day - 10, Day + Hour, Day + 10 * Hour}

StartTimes == {10 * Hour}

LimitConfigs ==
    {l \in [ConnectionsPerDay : 1..MaxLimit, ConnectionsPerHour : 1..MaxLimit,
            MessagesPerDay : {DefaultMessagesPerDay}] :
        l.ConnectionsPerHour <= l.ConnectionsPerDay}

\* config.Load defaults of the activity windows
DefaultStealthConfig ==
    [BusinessHoursEnabled |-> TRUE,
     BusinessHoursStart |-> <<0, 9, Colon, 0, 0>>,
     BusinessHoursEnd |-> <<1, 7, Colon, 0, 0>>,
     BreakTimeEnabled |-> TRUE,
     BreakTimeStart |-> <<1, 2, Colon, 0, 0>>,
     BreakTimeEnd |-> <<1, 3, Colon, 0, 0>>]

EmptyData == [Profiles |-> <<>>, Messages |-> <<>>, ActionLogs |-> <<>>]

\* storage.New on a fresh path, connect.New, stealth.New
Init ==
    /\ now \in StartTimes
    /\ limits \in LimitConfigs
    /\ stealthConfig = DefaultStealthConfig
    /\ storage = [data |-> EmptyData, file |-> EmptyData]
    /\ lastActionTime = ZeroTime
    /\ cooldownCall = NoCooldownCall
    /\ batch = Idle
    /\ mu = Unlocked
    /\ goroutines = <<>>
    /\ ret = NoCall

\* the orchestrator is idle until instant t
Pass(t) ==
    /\ batch.pc = "idle"
    /\ t > now
    /\ now' = t
    /\ ret' = NoCall
    /\ UNCHANGED <<limits, stealthConfig, mu, goroutines, storage, lastActionTime, cooldownCall, batch>>

\* a profile as Searcher.RunSearch stores it
NewProfile(id, t) ==
    [ID |-> id, ProfileURL |-> id, State |-> StateDiscovered, DiscoveredAt |-> t,
     RequestedAt |-> NoTime, AcceptedAt |-> NoTime, CooledDownAt |-> NoTime]

\* the loop of Searcher.RunSearch over the results not yet handled
RECURSIVE SaveResults(_, _, _, _)
SaveResults(st, results, t, ok) ==
    IF results = {} THEN st
    ELSE LET id == CHOOSE r \in results : \A q \in results : r <= q
         IN IF ProfileExists(st, id) THEN SaveResults(st, results \ {id}, t, ok)
            ELSE SaveResults(SaveProfile(st, NewProfile(id, t), ok), results \ {id}, t, ok)

\* Searcher.RunSearch over one page holding `results`
RunSearch(results, ok) ==
    /\ batch.pc = "idle"
    /\ Len(ledger) < MaxLog
    /\ storage' = LogAction(SaveResults(storage, results, now, ok), "search", NoProfile, TRUE, "", now, ok)
    /\ ret' = [op |-> "RunSearch", id |-> NoProfile, err |-> ErrNil]
    /\ UNCHANGED <<now, limits, stealthConfig, mu, goroutines, lastActionTime, cooldownCall, batch>>

\* Connector.ProcessDailyConnections up to its loop
ProcessDailyConnectionsStart ==
    /\ batch.pc = "idle"
    /\ LET connectionsToday == GetActionCountToday(storage, "connection", now)
           connectionsLastHour == GetActionCountLastHour(storage, "connection", now)
           candidates == GetProfilesByState(storage, StateDiscovered)
           remainingDaily == limits.ConnectionsPerDay - connectionsToday
           remainingHourly == limits.ConnectionsPerHour - connectionsLastHour
       IN IF \/ connectionsToday >= limits.ConnectionsPerDay
             \/ connectionsLastHour >= limits.ConnectionsPerHour
             \/ candidates = {}
          THEN /\ batch' = Idle
               /\ ret' = [op |-> "ProcessDailyConnections", id |-> NoProfile, err |-> ErrNil]
          ELSE /\ batch' = [pc |-> "loop", todo |-> candidates, sent |-> 0,
                            maxToSend |-> Min(remainingDaily, remainingHourly)]
               /\ ret' = NoCall
    /\ UNCHANGED <<now, limits, stealthConfig, mu, goroutines, storage, lastActionTime, cooldownCall>>

\* one iteration of the loop of Connector.ProcessDailyConnections, on candidate p
ProcessDailyConnectionsStep(p, d, ok1, ok2) ==
    /\ batch.pc = "loop"
    /\ batch.sent < batch.maxToSend
    /\ p \in batch.todo
    /\ Len(ledger) < MaxLog
    /\ LET t == now + d
           r == SendConnectionRequest(storage, p, t, ok1, ok2)
       IN IF r.err
          THEN /\ storage' = LogAction(r.st, "connection", p, FALSE, "failed to update profile state", t, ok2)
               /\ batch' = [batch EXCEPT !.todo = @ \ {p}]
               /\ now' = t
               /\ UNCHANGED <<lastActionTime, cooldownCall>>
          ELSE LET c == EnforceCooldown(lastActionTime, t, ConnectionCooldownSeconds, 0)
               IN /\ storage' = r.st
                  /\ batch' = [batch EXCEPT !.todo = @ \ {p}, !.sent = @ + 1]
                  /\ lastActionTime' = c.last
                  /\ cooldownCall' = [m |-> ConnectionCooldownSeconds, waited |-> c.waited,
                                      granted |-> t + c.waited]
                  /\ now' = t + c.waited
    /\ ret' = [op |-> "SendConnectionRequest", id |-> p, err |-> IF ok1 THEN ErrNil ELSE ErrError]
    /\ UNCHANGED <<limits, stealthConfig, mu, goroutines>>

\* the loop of Connector.ProcessDailyConnections ends and the call returns nil
ProcessDailyConnectionsEnd ==
    /\ batch.pc = "loop"
    /\ batch.sent >= batch.maxToSend \/ batch.todo = {}
    /\ batch' = Idle
    /\ ret' = [op |-> "ProcessDailyConnections", id |-> NoProfile, err |-> ErrNil]
    /\ UNCHANGED <<now, limits, stealthConfig, mu, goroutines, storage, lastActionTime, cooldownCall>>

\* Connector.SendConnectionRequest called by the orchestrator on stored profile p
SendConnectionRequestCall(p, d, ok1, ok2) ==
    /\ batch.pc = "idle"
    /\ p \in DOMAIN profiles
    /\ Len(ledger) < MaxLog
    /\ LET r == SendConnectionRequest(storage, p, now + d, ok1, ok2)
       IN /\ storage' = r.st
          /\ ret' = [op |-> "SendConnectionRequest", id |-> p, err |-> IF r.err THEN ErrError ELSE ErrNil]
    /\ now' = now + d
    /\ UNCHANGED <<limits, stealthConfig, mu, goroutines, lastActionTime, cooldownCall, batch>>

\* the loop of Connector.CheckAcceptedConnections over the requested profiles
\* for which ShouldProceed(0.2) is true
RECURSIVE AcceptAll(_, _, _, _)
AcceptAll(st, ids, t, ok) ==
    IF ids = {} THEN st
    ELSE LET id == CHOOSE r \in ids : \A q \in ids : r <= q
             profile == [st.data.Profiles[id] EXCEPT !.State = StateAccepted, !.AcceptedAt = t]
         IN AcceptAll(SaveProfile(st, profile, ok), ids \ {id}, t, ok)

\* Connector.CheckAcceptedConnections
CheckAcceptedConnections(accepted, ok) ==
    /\ batch.pc = "idle"
    /\ accepted \subseteq GetProfilesByState(storage, StateRequested)
    /\ storage' = AcceptAll(storage, accepted, now, ok)
    /\ ret' = [op |-> "CheckAcceptedConnections", id |-> NoProfile, err |-> ErrNil]
    /\ UNCHANGED <<now, limits, stealthConfig, mu, goroutines, lastActionTime, cooldownCall, batch>>

\* Connector.MoveToCooldown on stored profile p
MoveToCooldown(p, ok) ==
    /\ batch.pc = "idle"
    /\ p \in DOMAIN profiles
    /\ storage' = SaveProfile(storage, [profiles[p] EXCEPT !.State = StateCooledDown, !.CooledDownAt = now], ok)
    /\ ret' = [op |-> "MoveToCooldown", id |-> p, err |-> IF ok THEN ErrNil ELSE ErrError]
    /\ UNCHANGED <<now, limits, stealthConfig, mu, goroutines, lastActionTime, cooldownCall, batch>>

\* a faulty withdrawal, which keeps the requested timestamp: C20 must tell it apart
WithdrawKeepingTimestamp(p, d, ok) ==
    /\ batch.pc = "idle"
    /\ p \in DOMAIN profiles
    /\ storage' = SaveProfile(storage, [profiles[p] EXCEPT !.State = StateDiscovered], ok)
    /\ now' = now + d
    /\ ret' = [op |-> "WithdrawConnectionRequest", id |-> p, err |-> IF ok THEN ErrNil ELSE ErrError]
    /\ UNCHANGED <<limits, stealthConfig, mu, goroutines, lastActionTime, cooldownCall, batch>>

\* Connector.WithdrawConnectionRequest on stored profile p; d is its RandomDelay
WithdrawConnectionRequest(p, d, ok) ==
    /\ batch.pc = "idle"
    /\ p \in DOMAIN profiles
    /\ storage' = SaveProfile(storage, [profiles[p] EXCEPT !.State = StateDiscovered, !.RequestedAt = NoTime], ok)
    /\ now' = now + d
    /\ ret' = [op |-> "WithdrawConnectionRequest", id |-> p, err |-> IF ok THEN ErrNil ELSE ErrError]
    /\ UNCHANGED <<limits, stealthConfig, mu, goroutines, lastActionTime, cooldownCall, batch>>

\* the result pages of Searcher.generateMockProfiles: profiles 1..count
SearchPages == {1..count : count \in 1..MaxProfiles}

NextBatch ==
    \/ \E t \in Instants : Pass(t)
    \/ \E results \in SearchPages : ~(results \subseteq DOMAIN profiles) /\ RunSearch(results, TRUE)
    \/ ProcessDailyConnectionsStart
    \/ \E p \in ProfileIds : \E d \in RequestDurations :
          ProcessDailyConnectionsStep(p, d, TRUE, TRUE)
    \/ ProcessDailyConnectionsEnd

SpecBatch == Init /\ [][NextBatch]_vars

\* the RandomDelay of WithdrawConnectionRequest, below one second
WithdrawDurations == {0}

\* the profiles and result pages of the runs of direct calls
ConnectIds == 1..MaxConnectProfiles

ConnectPages == {1..count : count \in 1..MaxConnectProfiles}

\* the durations of a connection request in the runs of direct calls
ConnectDurations == {10}

\* the Connector's state-changing operations called directly on any stored
\* profile, in any order, every save succeeding
NextConnect ==
    \/ \E results \in ConnectPages :
          /\ ~(results \subseteq DOMAIN profiles)
          /\ Len(ledger) < MaxConnectLog
          /\ RunSearch(results, TRUE)
    \/ \E p \in ConnectIds : \E d \in ConnectDurations :
          /\ Len(ledger) < MaxConnectLog
          /\ SendConnectionRequestCall(p, d, TRUE, TRUE)
    \/ \E accepted \in (SUBSET ConnectIds) \ {{}} : CheckAcceptedConnections(accepted, TRUE)
    \/ \E p \in ConnectIds : MoveToCooldown(p, TRUE)
    \/ \E p \in ConnectIds : \E d \in WithdrawDurations : WithdrawConnectionRequest(p, d, TRUE)

SpecConnect == Init /\ [][NextConnect]_vars

\* an instant inside the break window (12:30), the Activity Gate closed
WithdrawInstants == {12 * Hour + 30 * Minute}

\* requests and withdrawals called directly, inside and outside the activity
\* windows
NextWithdraw ==
    \/ \E t \in WithdrawInstants : Pass(t)
    \/ \E results \in ConnectPages :
          /\ ~(results \subseteq DOMAIN profiles)
          /\ Len(ledger) < MaxConnectLog
          /\ RunSearch(results, TRUE)
    \/ \E p \in ConnectIds : \E d \in ConnectDurations :
          /\ Len(ledger) < MaxConnectLog
          /\ SendConnectionRequestCall(p, d, TRUE, TRUE)
    \/ \E p \in ConnectIds : \E d \in WithdrawDurations : WithdrawConnectionRequest(p, d, TRUE)

SpecWithdraw == Init /\ [][NextWithdraw]_vars

\* the connection requests, direct and in a batch, with I/O errors in the saves;
\* the run ends at Horizon
NextFaults ==
    \/ \E results \in ConnectPages :
          /\ ~(results \subseteq DOMAIN profiles)
          /\ Len(ledger) < MaxConnectLog
          /\ RunSearch(results, TRUE)
    \/ \E p \in ConnectIds : \E d \in ConnectDurations : \E ok1, ok2 \in BOOLEAN :
          /\ now + d <= Horizon
          /\ Len(ledger) < MaxConnectLog
          /\ SendConnectionRequestCall(p, d, ok1, ok2)
    \/ ProcessDailyConnectionsStart
    \/ \E p \in ConnectIds : \E d \in ConnectDurations : \E ok1, ok2 \in BOOLEAN :
          /\ Len(ledger) < MaxConnectLog
          /\ ProcessDailyConnectionsStep(p, d, ok1, ok2)
    \/ ProcessDailyConnectionsEnd

SpecFaults == Init /\ [][NextFaults]_vars

\* -------------------------------------------------- interruption and restart
\* the content of the file after os.WriteFile was interrupted: opened with
\* O_TRUNC and a strict prefix of the new bytes written, which is not valid JSON
TruncatedFile == [Truncated |-> TRUE]

\* how far os.WriteFile got when the process was killed
WriteProgress == {"none", "part", "all"}

\* Storage.save interrupted inside os.WriteFile
saveInterrupted(st, written) ==
    CASE written = "none" -> st
      [] written = "part" -> [st EXCEPT !.file = TruncatedFile]
      [] written = "all" -> [st EXCEPT !.file = st.data]

\* the process is not running
Down == [pc |-> "down", todo |-> {}, sent |-> 0, maxToSend |-> 0]

\* Connector.SendConnectionRequest on stored profile p, the process killed
\* inside the save of SaveProfile (point 1) or inside the save of LogAction
\* (point 2)
SendConnectionRequestInterrupted(p, d, point, written) ==
    /\ batch.pc = "idle"
    /\ p \in DOMAIN profiles
    /\ LET t == now + d
           profile == [profiles[p] EXCEPT !.State = StateRequested, !.RequestedAt = t]
           s0 == [storage EXCEPT !.data.Profiles = (p :> profile) @@ @]
           s1 == save(s0, TRUE)
           log == [Action |-> "connection", Timestamp |-> t, ProfileID |-> p,
                   Success |-> TRUE, Error |-> ""]
           s2 == [s1 EXCEPT !.data.ActionLogs = Append(@, log)]
       IN storage' = IF point = 1 THEN saveInterrupted(s0, written)
                     ELSE saveInterrupted(s2, written)
    /\ now' = now + d
    /\ batch' = Down
    /\ ret' = [op |-> "killed", id |-> p, err |-> ErrNil]
    /\ UNCHANGED <<limits, stealthConfig, mu, goroutines, lastActionTime, cooldownCall>>

\* the process is started again r seconds later: storage.New loads the file;
\* a file that does not parse makes it return an error and the process exits
Restart(r) ==
    /\ batch.pc = "down"
    /\ now' = now + r
    /\ IF storage.file = TruncatedFile
       THEN /\ ret' = [op |-> "storage.New", id |-> NoProfile, err |-> ErrError]
            /\ UNCHANGED <<storage, batch, lastActionTime, cooldownCall>>
       ELSE /\ storage' = [storage EXCEPT !.data = storage.file]
            /\ batch' = Idle
            /\ lastActionTime' = ZeroTime
            /\ cooldownCall' = NoCooldownCall
            /\ ret' = [op |-> "storage.New", id |-> NoProfile, err |-> ErrNil]
    /\ UNCHANGED <<limits, stealthConfig, mu, goroutines>>

\* what a restart takes, seconds
RestartDelays == {5}

\* search and direct requests, the process killed inside a request at any
\* point of its two saves, and restarted
NextCrash ==
    \/ \E results \in ConnectPages :
          /\ ~(results \subseteq DOMAIN profiles)
          /\ Len(ledger) < MaxConnectLog
          /\ RunSearch(results, TRUE)
    \/ \E p \in ConnectIds : \E d \in ConnectDurations :
          /\ now + d <= Horizon
          /\ Len(ledger) < MaxConnectLog
          /\ SendConnectionRequestCall(p, d, TRUE, TRUE)
    \/ \E p \in ConnectIds : \E d \in ConnectDurations :
       \E point \in {1, 2} : \E written \in WriteProgress :
          /\ now + d <= Horizon
          /\ Len(ledger) < MaxConnectLog
          /\ SendConnectionRequestInterrupted(p, d, point, written)
    \/ \E r \in RestartDelays : now + r <= Horizon /\ Restart(r)

SpecCrash == Init /\ [][NextCrash]_vars

\* Storage.LogAction called at time now
LogActionCall(action, profileID, success, ok) ==
    /\ batch.pc = "idle"
    /\ Len(ledger) < MaxLog
    /\ storage' = LogAction(storage, action, profileID, success,
                            IF success THEN "" ELSE "failed", now, ok)
    /\ ret' = [op |-> "LogAction", id |-> profileID, err |-> IF ok THEN ErrNil ELSE ErrError]
    /\ UNCHANGED <<now, limits, stealthConfig, mu, goroutines, lastActionTime, cooldownCall, batch>>

\* the categories of the ledger in the runs of LogAction calls
Categories == {"connection", "message"}

\* midnight of day 1 and one hour later
LedgerInstants == {Day, Day + Hour}

NextLedger ==
    \/ \E t \in LedgerInstants : Pass(t)
    \/ \E action \in Categories : \E success \in BOOLEAN :
          LogActionCall(action, NoProfile, success, TRUE)

SpecLedger == Init /\ [][NextLedger]_vars

\* Stealth.EnforceCooldown called at time now
EnforceCooldownCall(minDelaySeconds, over) ==
    /\ batch.pc = "idle"
    /\ LET c == EnforceCooldown(lastActionTime, now, minDelaySeconds, over)
       IN /\ lastActionTime' = c.last
          /\ cooldownCall' = [m |-> minDelaySeconds, waited |-> c.waited,
                              granted |-> now + c.waited]
          /\ now' = now + c.waited
    /\ ret' = [op |-> "EnforceCooldown", id |-> NoProfile, err |-> ErrNil]
    /\ UNCHANGED <<limits, stealthConfig, mu, goroutines, storage, batch>>

\* the minimum delays of the callers (connect.go:137, part_000:305) and 0
CooldownDelays == {0, 5, 30}

\* what time.Sleep may oversleep, seconds
Oversleeps == {0, 1}

\* the time between two calls of the runs of EnforceCooldown calls
Elapses == {2, 20}

NextCooldown ==
    \/ \E d \in Elapses : now + d <= CooldownHorizon /\ Pass(now + d)
    \/ \E m \in CooldownDelays : \E over \in Oversleeps :
          now <= CooldownHorizon /\ EnforceCooldownCall(m, over)

SpecCooldown == Init /\ [][NextCooldown]_vars

\* ---------------------------------------------------------------- Messenger
\* the templates of Messenger.loadDefaultTemplates
LoadedTemplates == {"follow_up", "connection_request", "follow_up_short"}

\* Messenger.SendMessage on the stored profile id, called at time t0; d is what
\* navigateToConversation and typeAndSend take, ok1 and ok2 whether the saves of
\* SaveMessage and LogAction succeed.  The result is the store, whether an
\* error is returned, and the time of return.
SendMessage(st, lim, id, templateName, t0, d, ok1, ok2) ==
    IF GetActionCountToday(st, "message", t0) >= lim.MessagesPerDay
    THEN [st |-> st, err |-> TRUE, t |-> t0]
    ELSE IF st.data.Profiles[id].State \notin {StateAccepted, StateCooledDown}
    THEN [st |-> st, err |-> TRUE, t |-> t0]
    ELSE IF templateName \notin LoadedTemplates
    THEN [st |-> st, err |-> TRUE, t |-> t0]
    ELSE LET t == t0 + d
             message == [ID |-> t, ProfileID |-> id, SentAt |-> t, Template |-> templateName]
             s1 == SaveMessage(st, message, ok1)
         IN [st |-> LogAction(s1, "message", id, TRUE, "", t, ok2), err |-> FALSE, t |-> t]

\* Messenger.SendMessage called by the orchestrator on stored profile p
SendMessageCall(p, templateName, d, ok1, ok2) ==
    /\ batch.pc = "idle"
    /\ p \in DOMAIN profiles
    /\ LET r == SendMessage(storage, limits, p, templateName, now, d, ok1, ok2)
       IN /\ storage' = r.st
          /\ now' = r.t
          /\ ret' = [op |-> "SendMessage", id |-> p, err |-> IF r.err THEN ErrError ELSE ErrNil]
    /\ UNCHANGED <<limits, stealthConfig, mu, goroutines, lastActionTime, cooldownCall, batch>>

\* Messenger.SendBulkMessages called on the stored profiles `targets`, up to
\* its loop
SendBulkMessagesStart(targets) ==
    /\ batch.pc = "idle"
    /\ targets \subseteq DOMAIN profiles
    /\ batch' = [pc |-> "bulk", todo |-> targets, sent |-> 0, maxToSend |-> 0]
    /\ ret' = NoCall
    /\ UNCHANGED <<now, limits, stealthConfig, mu, goroutines, storage, lastActionTime, cooldownCall>>

\* Messenger.ProcessAcceptedConnections up to the loop of SendBulkMessages
ProcessAcceptedConnectionsStart ==
    /\ batch.pc = "idle"
    /\ LET accepted == GetProfilesByState(storage, StateAccepted)
           unmessaged == {p \in accepted : GetMessagesByProfile(storage, p) = {}}
       IN IF unmessaged = {}
          THEN /\ batch' = Idle
               /\ ret' = [op |-> "ProcessAcceptedConnections", id |-> NoProfile, err |-> ErrNil]
          ELSE /\ batch' = [pc |-> "bulk", todo |-> unmessaged, sent |-> 0, maxToSend |-> 0]
               /\ ret' = NoCall
    /\ UNCHANGED <<now, limits, stealthConfig, mu, goroutines, storage, lastActionTime, cooldownCall>>

\* one iteration of the loop of Messenger.SendBulkMessages, on profile p
SendBulkMessagesStep(p, templateName, d, ok1, ok2) ==
    /\ batch.pc = "bulk"
    /\ p \in batch.todo
    /\ IF GetActionCountToday(storage, "message", now) >= limits.MessagesPerDay
       THEN /\ batch' = Idle
            /\ ret' = [op |-> "SendBulkMessages", id |-> NoProfile, err |-> ErrNil]
            /\ UNCHANGED <<now, storage, lastActionTime, cooldownCall, mu, goroutines>>
       ELSE LET r == SendMessage(storage, limits, p, templateName, now, d, ok1, ok2)
            IN /\ storage' = r.st
               /\ ret' = [op |-> "SendMessage", id |-> p, err |-> IF r.err THEN ErrError ELSE ErrNil]
               /\ IF r.err
                  THEN /\ batch' = [batch EXCEPT !.todo = @ \ {p}]
                       /\ now' = r.t
                       /\ UNCHANGED <<lastActionTime, cooldownCall>>
                  ELSE LET c == EnforceCooldown(lastActionTime, r.t, MessageCooldownSeconds, 0)
                       IN /\ batch' = [batch EXCEPT !.todo = @ \ {p}, !.sent = @ + 1]
                          /\ lastActionTime' = c.last
                          /\ cooldownCall' = [m |-> MessageCooldownSeconds, waited |-> c.waited,
                                              granted |-> r.t + c.waited]
                          /\ now' = r.t + c.waited
    /\ UNCHANGED <<limits, stealthConfig, mu, goroutines>>

\* the loop of Messenger.SendBulkMessages ends and the call returns nil
SendBulkMessagesEnd ==
    /\ batch.pc = "bulk"
    /\ batch.todo = {}
    /\ batch' = Idle
    /\ ret' = [op |-> "SendBulkMessages", id |-> NoProfile, err |-> ErrNil]
    /\ UNCHANGED <<now, limits, stealthConfig, mu, goroutines, storage, lastActionTime, cooldownCall>>

\* limits of the runs of the Messenger: the message budget varies
MessageLimitConfigs ==
    [ConnectionsPerDay : {MaxLimit}, ConnectionsPerHour : {MaxLimit},
     MessagesPerDay : 1..MaxLimit]

InitMessage ==
    /\ now \in StartTimes
    /\ limits \in MessageLimitConfigs
    /\ stealthConfig = DefaultStealthConfig
    /\ storage = [data |-> EmptyData, file |-> EmptyData]
    /\ lastActionTime = ZeroTime
    /\ cooldownCall = NoCooldownCall
    /\ batch = Idle
    /\ mu = Unlocked
    /\ goroutines = <<>>
    /\ ret = NoCall

\* what navigateToConversation and typeAndSend take, seconds
MessageDurations == {20}

\* 20 seconds before midnight of day 1: a message sent then is recorded at midnight
MessageInstants == {Day - 20}

\* the profiles of the runs of the Messenger
MessageIds == 1..MaxMessageProfiles

\* search, request, acceptance and cooldown of the profiles, and the Messenger's
\* operations on them in any order
NextMessage ==
    \/ \E t \in MessageInstants : Pass(t)
    \/ ~(MessageIds \subseteq DOMAIN profiles) /\ RunSearch(MessageIds, TRUE)
    \/ \E p \in MessageIds : \E d \in ConnectDurations :
          /\ Len(ledger) < MaxMessageLog
          /\ p \in DOMAIN profiles
          /\ profiles[p].State = StateDiscovered
          /\ SendConnectionRequestCall(p, d, TRUE, TRUE)
    \/ \E accepted \in (SUBSET MessageIds) \ {{}} : CheckAcceptedConnections(accepted, TRUE)
    \/ \E p \in MessageIds : MoveToCooldown(p, TRUE)
    \/ \E p \in MessageIds : \E d \in MessageDurations :
          /\ Len(ledger) < MaxMessageLog
          /\ SendMessageCall(p, "follow_up", d, TRUE, TRUE)
    \/ \E targets \in (SUBSET MessageIds) \ {{}} : SendBulkMessagesStart(targets)
    \/ ProcessAcceptedConnectionsStart
    \/ \E p \in MessageIds : \E d \in MessageDurations :
          /\ Len(ledger) < MaxMessageLog
          /\ SendBulkMessagesStep(p, "follow_up", d, TRUE, TRUE)
    \/ SendBulkMessagesEnd

SpecMessage == InitMessage /\ [][NextMessage]_vars

\* --------------------------------------------------------- Authenticator
\* a faulty loop condition, which allows one attempt too many: C25 must tell it
\* apart
LoginMayAttemptOnceMore(attempt) == attempt <= CheckpointRetries + 1

\* the condition of the retry loop of Authenticator.Login
LoginMayAttempt(attempt) == attempt <= CheckpointRetries

\* a faulty backoff, linear in the attempt number: C26 must tell it apart
LoginBackoffLinear(attempt) == attempt * Minute

\* the backoff of Authenticator.Login after a checkpoint at attempt `attempt`,
\* seconds
LoginBackoff(attempt) == attempt * attempt * Minute

\* the loop of Authenticator.Login from attempt `attempt` on, started at time
\* t: with the credentials set, the first `checkpoints` calls of performLogin
\* end in a security checkpoint and the next one succeeds; without them every
\* call fails at once. d is what one performLogin takes.
RECURSIVE LoginFrom(_, _, _, _, _, _)
LoginFrom(st, attempt, credentials, checkpoints, d, t) ==
    IF ~LoginMayAttempt(attempt) THEN [st |-> st, err |-> TRUE, t |-> t]
    ELSE LET s1 == LogAction(st, "login_attempt", NoProfile, FALSE, "", t, TRUE)
         IN IF ~credentials
            THEN LoginFrom(s1, attempt + 1, credentials, checkpoints, d, t + LoginRetrySeconds)
            ELSE IF attempt > checkpoints
            THEN [st |-> LogAction(s1, "login_success", NoProfile, TRUE, "", t + d, TRUE),
                  err |-> FALSE, t |-> t + d]
            ELSE LoginFrom(s1, attempt + 1, credentials, checkpoints, d,
                           t + d + LoginBackoff(attempt))

\* Authenticator.Login; session is whether tryLoadSession restores a session
Login(session, credentials, checkpoints, d) ==
    /\ batch.pc = "idle"
    /\ LET r == IF session THEN [st |-> storage, err |-> FALSE, t |-> now]
                ELSE LoginFrom(storage, 1, credentials, checkpoints, d, now)
       IN /\ storage' = r.st
          /\ now' = r.t
          /\ ret' = [op |-> "Login", id |-> NoProfile, err |-> IF r.err THEN ErrError ELSE ErrNil]
    /\ UNCHANGED <<limits, stealthConfig, mu, goroutines, lastActionTime, cooldownCall, batch>>

\* Storage.CleanOldLogs called directly
CleanOldLogsCall(retentionDays, ok) ==
    /\ batch.pc = "idle"
    /\ storage' = CleanOldLogs(storage, retentionDays, now, ok)
    /\ ret' = [op |-> "CleanOldLogs", id |-> NoProfile, err |-> IF ok THEN ErrNil ELSE ErrError]
    /\ UNCHANGED <<now, limits, stealthConfig, mu, goroutines, lastActionTime, cooldownCall, batch>>

\* the limits of DefaultConfig
DefaultLimits ==
    [ConnectionsPerDay |-> DefaultConnectionsPerDay,
     ConnectionsPerHour |-> DefaultConnectionsPerHour,
     MessagesPerDay |-> DefaultMessagesPerDay,
     SearchesPerDay |-> DefaultSearchesPerDay]

InitModules ==
    /\ now \in StartTimes
    /\ limits = DefaultLimits
    /\ stealthConfig = DefaultStealthConfig
    /\ storage = [data |-> EmptyData, file |-> EmptyData]
    /\ lastActionTime = ZeroTime
    /\ cooldownCall = NoCooldownCall
    /\ batch = Idle
    /\ mu = Unlocked
    /\ goroutines = <<>>
    /\ ret = NoCall

\* the profiles of the runs of all modules
ModuleIds == 1..MaxModuleProfiles

\* what one performLogin takes, seconds
LoginDurations == {10}

\* retention periods: none, and one day
RetentionDays == {0, 1}

\* a call of CleanOldLogs
CleanOldLogsStep == \E retentionDays \in RetentionDays : CleanOldLogsCall(retentionDays, TRUE)

\* Authenticator.Login up to its retry loop; session is whether tryLoadSession
\* restores a session.  In the loop batch.sent is the number of attempts made.
LoginStart(session) ==
    /\ batch.pc = "idle"
    /\ IF session
       THEN /\ batch' = Idle
            /\ ret' = [op |-> "Login", id |-> NoProfile, err |-> ErrNil]
       ELSE /\ batch' = [pc |-> "login", todo |-> {}, sent |-> 0, maxToSend |-> CheckpointRetries]
            /\ ret' = NoCall
    /\ UNCHANGED <<now, limits, stealthConfig, mu, goroutines, storage, lastActionTime, cooldownCall>>

\* one iteration of the retry loop: performLogin takes d and succeeds ("ok"),
\* meets a security checkpoint ("checkpoint"), or fails at once because the
\* credentials are not set ("error")
LoginAttempt(outcome, d) ==
    /\ batch.pc = "login"
    /\ LoginMayAttempt(batch.sent + 1)
    /\ LET attempt == batch.sent + 1
           s1 == LogAction(storage, "login_attempt", NoProfile, FALSE, "", now, TRUE)
       IN CASE outcome = "ok" ->
                 /\ storage' = LogAction(s1, "login_success", NoProfile, TRUE, "", now + d, TRUE)
                 /\ now' = now + d
                 /\ batch' = Idle
                 /\ ret' = [op |-> "Login", id |-> NoProfile, err |-> ErrNil]
            [] outcome = "checkpoint" ->
                 /\ storage' = s1
                 /\ now' = now + d + LoginBackoff(attempt)
                 /\ batch' = [batch EXCEPT !.sent = attempt]
                 /\ ret' = [op |-> "performLogin", id |-> NoProfile, err |-> ErrError,
                            checkpoint |-> TRUE, waited |-> LoginBackoff(attempt)]
            [] outcome = "error" ->
                 /\ storage' = s1
                 /\ now' = now + LoginRetrySeconds
                 /\ batch' = [batch EXCEPT !.sent = attempt]
                 /\ ret' = [op |-> "performLogin", id |-> NoProfile, err |-> ErrError,
                            checkpoint |-> FALSE, waited |-> LoginRetrySeconds]
    /\ UNCHANGED <<limits, stealthConfig, mu, goroutines, lastActionTime, cooldownCall>>

\* the retry loop ends without a success and Login returns its error
LoginEnd ==
    /\ batch.pc = "login"
    /\ ~LoginMayAttempt(batch.sent + 1)
    /\ batch' = Idle
    /\ ret' = [op |-> "Login", id |-> NoProfile, err |-> ErrError]
    /\ UNCHANGED <<now, limits, stealthConfig, mu, goroutines, storage, lastActionTime, cooldownCall>>

\* Login called again and again while the ledger has room for a whole run
NextLogin ==
    \/ \E session \in BOOLEAN :
          /\ Len(ledger) + CheckpointRetries + 1 <= MaxLoginLog
          /\ LoginStart(session)
    \/ \E outcome \in {"ok", "checkpoint", "error"} : \E d \in LoginDurations :
          LoginAttempt(outcome, d)
    \/ LoginEnd

SpecLogin == InitModules /\ [][NextLogin]_vars

\* a Login that was called runs on: its loop and its sleeps are finite
SpecLoginFair ==
    /\ SpecLogin
    /\ WF_vars(\E outcome \in {"ok", "checkpoint", "error"} : \E d \in LoginDurations :
                  LoginAttempt(outcome, d))
    /\ WF_vars(LoginEnd)

\* midnight of day 1, and 10 and 11 hours after it: one day after the start of
\* the process, and one hour later
TrimInstants == {Day, Day + 10 * Hour, Day + 11 * Hour}

\* LogAction and CleanOldLogs calls over two days
NextTrim ==
    \/ \E t \in TrimInstants : Pass(t)
    \/ \E action \in Categories : \E success \in BOOLEAN :
          LogActionCall(action, NoProfile, success, TRUE)
    \/ CleanOldLogsStep

SpecTrim == Init /\ [][NextTrim]_vars

\* an operation may be called until ModulesHorizon; a batch that was started
\* runs to its end
MayStart == now <= ModulesHorizon

\* the ledger stays within MaxLog records
LedgerFits == Len(ledger') <= MaxLog

\* the operations of every module that writes to the store, in any order
NextModules ==
    \/ MayStart /\ Login(TRUE, TRUE, 0, 0)
    \/ \E credentials \in BOOLEAN : \E checkpoints \in 0..CheckpointRetries :
       \E d \in LoginDurations :
          MayStart /\ Login(FALSE, credentials, checkpoints, d) /\ LedgerFits
    \/ MayStart /\ ~(ModuleIds \subseteq DOMAIN profiles) /\ RunSearch(ModuleIds, TRUE) /\ LedgerFits
    \/ \E p \in ModuleIds : \E d \in ConnectDurations :
          MayStart /\ SendConnectionRequestCall(p, d, TRUE, TRUE) /\ LedgerFits
    \/ MayStart /\ ProcessDailyConnectionsStart
    \/ \E p \in ModuleIds : \E d \in ConnectDurations :
          ProcessDailyConnectionsStep(p, d, TRUE, TRUE) /\ LedgerFits
    \/ ProcessDailyConnectionsEnd
    \/ \E accepted \in (SUBSET ModuleIds) \ {{}} :
          MayStart /\ CheckAcceptedConnections(accepted, TRUE)
    \/ \E p \in ModuleIds : MayStart /\ MoveToCooldown(p, TRUE)
    \/ \E p \in ModuleIds : \E d \in WithdrawDurations :
          MayStart /\ WithdrawConnectionRequest(p, d, TRUE)
    \/ \E p \in ModuleIds : \E d \in MessageDurations :
          MayStart /\ SendMessageCall(p, "follow_up", d, TRUE, TRUE) /\ LedgerFits
    \/ MayStart /\ ProcessAcceptedConnectionsStart
    \/ \E p \in ModuleIds : \E d \in MessageDurations :
          SendBulkMessagesStep(p, "follow_up", d, TRUE, TRUE) /\ LedgerFits
    \/ SendBulkMessagesEnd
    \/ CleanOldLogsStep

SpecModules == InitModules /\ [][NextModules]_vars

\* ------------------------------------------------ Stealth: delays and mouse
\* Go's int, scaled down from 64 to IntWidth bits: the least and the greatest
\* value, and two's-complement wrap-around of a sum or difference
MinInt == -(2 ^ (IntWidth - 1))
MaxInt == 2 ^ (IntWidth - 1) - 1
Wrap(x) == ((x - MinInt) % (2 ^ IntWidth)) + MinInt

\* Stealth.randomInt: the outcomes it can have.  rng.Intn(n) panics when
\* n <= 0 and returns any value of 0..n-1 otherwise.
randomInt(min, max) ==
    IF min >= max THEN {[panic |-> FALSE, value |-> min]}
    ELSE LET n == Wrap(Wrap(max - min) + 1)
         IN IF n <= 0 THEN {[panic |-> TRUE, value |-> min]}
            ELSE {[panic |-> FALSE, value |-> Wrap(min + k)] : k \in 0..(n - 1)}

\* Stealth.randomInt called with any two ints
RandomIntCall(min, max) ==
    /\ batch.pc = "idle"
    /\ \E o \in randomInt(min, max) :
          ret' = [op |-> "randomInt", id |-> NoProfile,
                  err |-> IF o.panic THEN "panic" ELSE ErrNil,
                  min |-> min, max |-> max, value |-> o.value]
    /\ UNCHANGED <<now, limits, stealthConfig, mu, goroutines, storage, lastActionTime, cooldownCall, batch>>

\* the conversion int(distance / 5) of Stealth.calculateSteps, the square of
\* the distance given: the integer part of the quotient when int can hold it;
\* a value outside the range of int converts to an implementation-dependent
\* int, the least one on amd64 and the greatest one on arm64
DistanceOverFive(distanceSquared) ==
    LET below == {k \in 0..(MaxInt + 1) : 25 * k * k <= distanceSquared}
        q == CHOOSE k \in below : \A j \in below : j <= k
    IN IF q <= MaxInt THEN {q} ELSE {MinInt, MaxInt}

\* Stealth.calculateSteps for points with integer coordinates: the values it
\* can return
calculateSteps(x1, y1, x2, y2) ==
    LET distanceSquared == (x2 - x1) * (x2 - x1) + (y2 - y1) * (y2 - y1)
        clamp(steps) == IF steps < 10 THEN 10 ELSE IF steps > 100 THEN 100 ELSE steps
    IN {clamp(steps) : steps \in DistanceOverFive(distanceSquared)}

\* a faulty curve, whose second term lacks the factor t: C29 must tell it apart
cubicBezierWithoutT(p0, p1, p2, p3, i, steps) ==
    LET u == steps - i
    IN [X |-> u * u * u * p0.X + 3 * u * u * p1.X + 3 * u * i * i * p2.X + i * i * i * p3.X,
        Y |-> u * u * u * p0.Y + 3 * u * u * p1.Y + 3 * u * i * i * p2.Y + i * i * i * p3.Y]

\* Stealth.cubicBezier at t = i / steps, in exact arithmetic: the point
\* returned, multiplied by steps^3
cubicBezier(p0, p1, p2, p3, i, steps) ==
    LET u == steps - i
    IN [X |-> u * u * u * p0.X + 3 * u * u * i * p1.X + 3 * u * i * i * p2.X + i * i * i * p3.X,
        Y |-> u * u * u * p0.Y + 3 * u * u * i * p1.Y + 3 * u * i * i * p2.Y + i * i * i * p3.Y]

\* Stealth.getCurrentMousePosition
CurrentMousePosition == [X |-> 100, Y |-> 100]

\* Stealth.generateBezierControlPoints, rounded to integer coordinates; r1 and
\* r2 are the random offsets of the two control points
generateBezierControlPoints(from, to, r1, r2) ==
    LET distX == to.X - from.X
        distY == to.Y - from.Y
    IN [cp1 |-> [X |-> from.X + (distX * 3) \div 10 + r1.X, Y |-> from.Y + (distY * 3) \div 10 + r1.Y],
        cp2 |-> [X |-> from.X + (distX * 7) \div 10 + r2.X, Y |-> from.Y + (distY * 7) \div 10 + r2.Y]]

\* Stealth.MoveMouse to the point `to`: the samples are the points of the loop
\* i = 0..steps, of which the call records the number, the first and the last
MoveMouseCall(to, r1, r2) ==
    /\ batch.pc = "idle"
    /\ LET from == CurrentMousePosition
           cp == generateBezierControlPoints(from, to, r1, r2)
       IN \E steps \in calculateSteps(from.X, from.Y, to.X, to.Y) :
             ret' = [op |-> "MoveMouse", id |-> NoProfile, err |-> ErrNil,
                     from |-> from, cp1 |-> cp.cp1, cp2 |-> cp.cp2, to |-> to,
                     steps |-> steps,
                     samples |-> Cardinality(0..steps),
                     scale |-> steps * steps * steps,
                     first |-> cubicBezier(from, cp.cp1, cp.cp2, to, 0, steps),
                     last |-> cubicBezier(from, cp.cp1, cp.cp2, to, steps, steps)]
    /\ UNCHANGED <<now, limits, stealthConfig, mu, goroutines, storage, lastActionTime, cooldownCall, batch>>

\* targets at distance 0, 30, 50, 55, 250, 500, 600 and 700 of the current
\* position; the last one is beyond the range of the scaled-down int
MouseTargets ==
    {[X |-> 100, Y |-> 100], [X |-> 100, Y |-> 130], [X |-> 130, Y |-> 140],
     [X |-> 155, Y |-> 100], [X |-> 250, Y |-> 300], [X |-> 400, Y |-> 500],
     [X |-> 700, Y |-> 100], [X |-> 800, Y |-> 100]}

\* a value of randomInt(min, max) for min < max: the least or the greatest
DelayDraw(min, max, hi) == IF hi THEN max ELSE min

\* a faulty makeTypo, which does not look at TypoCorrection: C30 must tell it
\* apart
makeTypoAlways(cfg, hi) ==
    [wrong |-> 1, deletions |-> 1, delay |-> DelayDraw(100, 300, hi) + DelayDraw(50, 150, hi)]

\* Stealth.makeTypo: the wrong keystrokes and deletions it simulates and the
\* time it sleeps, milliseconds
makeTypo(cfg, hi) ==
    IF ~cfg.TypoCorrection THEN [wrong |-> 0, deletions |-> 0, delay |-> 0]
    ELSE [wrong |-> 1, deletions |-> 1, delay |-> DelayDraw(100, 300, hi) + DelayDraw(50, 150, hi)]

\* the loop of Stealth.TypeHumanLike from character i of text on; typos are
\* the indices at which rng.Float64() is below TypoChance, hi[i] whether the
\* delays drawn for character i are the greatest or the least; acc is the
\* account of what was simulated so far
RECURSIVE TypeFrom(_, _, _, _, _, _)
TypeFrom(cfg, text, i, typos, hi, acc) ==
    IF i > Len(text) THEN acc
    ELSE LET typo == IF cfg.TypoChance > 0 /\ i \in typos
                     THEN makeTypo(cfg, hi[i])
                     ELSE [wrong |-> 0, deletions |-> 0, delay |-> 0]
             keystroke == DelayDraw(cfg.TypingSpeedMin, cfg.TypingSpeedMax, hi[i])
             pause == IF text[i] \in {" ", ",", "."} THEN DelayDraw(50, 200, hi[i]) ELSE 0
         IN TypeFrom(cfg, text, i + 1, typos, hi,
                     [keys |-> acc.keys + 1,
                      typos |-> acc.typos + (IF cfg.TypoChance > 0 /\ i \in typos THEN 1 ELSE 0),
                      wrong |-> acc.wrong + typo.wrong,
                      deletions |-> acc.deletions + typo.deletions,
                      typoDelay |-> acc.typoDelay + typo.delay,
                      keyDelay |-> acc.keyDelay + keystroke,
                      pause |-> acc.pause + pause,
                      slept |-> acc.slept + typo.delay + keystroke + pause])

\* Stealth.TypeHumanLike called on text
TypeHumanLikeCall(text, typos, hi) ==
    /\ batch.pc = "idle"
    /\ stealthConfig.TypoChance = 0 => typos = {}
    /\ stealthConfig.TypoChance >= 100 => typos = DOMAIN text
    /\ LET acc == TypeFrom(stealthConfig, text, 1, typos, hi,
                           [keys |-> 0, typos |-> 0, wrong |-> 0, deletions |-> 0,
                            typoDelay |-> 0, keyDelay |-> 0, pause |-> 0, slept |-> 0])
       IN ret' = [op |-> "TypeHumanLike", id |-> NoProfile, err |-> ErrNil,
                  text |-> text, account |-> acc]
    /\ UNCHANGED <<now, limits, stealthConfig, mu, goroutines, storage, lastActionTime, cooldownCall, batch>>

\* stealth.New with any typing configuration: the defaults, with the typo
\* probability (in percent) and the correction feature as the configuration
\* file may set them
InitStealth ==
    /\ now \in StartTimes
    /\ limits = DefaultLimits
    /\ stealthConfig \in
          {[TypoChance |-> chance, TypoCorrection |-> correction,
            TypingSpeedMin |-> 80, TypingSpeedMax |-> 200] @@ DefaultStealthConfig :
              chance \in {0, 3, 100}, correction \in BOOLEAN}
    /\ storage = [data |-> EmptyData, file |-> EmptyData]
    /\ lastActionTime = ZeroTime
    /\ cooldownCall = NoCooldownCall
    /\ batch = Idle
    /\ mu = Unlocked
    /\ goroutines = <<>>
    /\ ret = NoCall

\* the pure functions of the Stealth engine called with any arguments:
\* randomInt on the extremes of int and values between, MoveMouse with the
\* extreme offsets randomFloat(-50, 50) gives a control point, TypeHumanLike
\* on the texts of up to MaxText letters and spaces
NextStealth ==
    \/ \E min, max \in {MinInt, -1, 0, 2, MaxInt} : RandomIntCall(min, max)
    \/ \E to \in MouseTargets :
          \E r1, r2 \in {[X |-> -50, Y |-> 50], [X |-> 50, Y |-> -50]} : MoveMouseCall(to, r1, r2)
    \/ \E n \in 1..MaxText : \E text \in [1..n -> {"a", " "}] :
          \E typos \in SUBSET DOMAIN text : \E hi \in [DOMAIN text -> BOOLEAN] :
             TypeHumanLikeCall(text, typos, hi)

SpecStealth == InitStealth /\ [][NextStealth]_vars

\* time.Parse("15:04", s) as Config.Validate applies it: the minutes since
\* midnight of an hour of one or two digits, a colon and two digits of minutes
ParseHHMM(s) ==
    LET c == CHOOSE i \in 1..Len(s) : s[i] = Colon
        hh == IF c = 2 THEN s[1] ELSE 10 * s[1] + s[2]
    IN 60 * hh + 10 * s[c + 1] + s[c + 2]

\* window configurations that Config.Validate accepts: the hour of the start
\* written with or without its leading zero, each window enabled or not
GateConfigs ==
    [BusinessHoursEnabled : BOOLEAN,
     BusinessHoursStart : {<<0, 9, Colon, 0, 0>>, <<9, Colon, 0, 0>>},
     BusinessHoursEnd : {<<1, 7, Colon, 0, 0>>},
     BreakTimeEnabled : BOOLEAN,
     BreakTimeStart : {<<1, 2, Colon, 0, 0>>},
     BreakTimeEnd : {<<1, 3, Colon, 0, 0>>}]

\* 08:59, 09:00, 11:59, 12:00, 12:30, 13:00, 13:01, 17:00:30 and 17:01
GateInstants ==
    {9 * Hour - Minute, 9 * Hour, 12 * Hour - Minute, 12 * Hour, 12 * Hour + 30 * Minute,
     13 * Hour, 13 * Hour + Minute, 17 * Hour + 30, 17 * Hour + Minute}

\* a process started at 08:00 with any of the window configurations
InitGate ==
    /\ now = 8 * Hour
    /\ limits \in LimitConfigs
    /\ stealthConfig \in GateConfigs
    /\ storage = [data |-> EmptyData, file |-> EmptyData]
    /\ lastActionTime = ZeroTime
    /\ cooldownCall = NoCooldownCall
    /\ batch = Idle
    /\ mu = Unlocked
    /\ goroutines = <<>>
    /\ ret = NoCall

\* Stealth.CheckBusinessHours called at time now
CheckBusinessHoursCall ==
    /\ batch.pc = "idle"
    /\ ret' = [op |-> "CheckBusinessHours", id |-> NoProfile, err |-> ErrNil,
               value |-> CheckBusinessHours(stealthConfig, now)]
    /\ UNCHANGED <<now, limits, stealthConfig, mu, goroutines, storage, lastActionTime, cooldownCall, batch>>

NextGate ==
    \/ \E t \in GateInstants : Pass(t)
    \/ CheckBusinessHoursCall

SpecGate == InitGate /\ [][NextGate]_vars

\* Stealth.WaitForBusinessHours is called; batch.sent counts its sleeps
WaitForBusinessHoursCall ==
    /\ batch.pc = "idle"
    /\ batch' = [pc |-> "wait", todo |-> {}, sent |-> 0, maxToSend |-> 0]
    /\ ret' = NoCall
    /\ UNCHANGED <<now, limits, stealthConfig, mu, goroutines, storage, lastActionTime, cooldownCall>>

\* one test of the loop of Stealth.WaitForBusinessHours: the call returns, or
\* sleeps 15 minutes and what time.Sleep oversleeps
WaitForBusinessHoursStep(over) ==
    /\ batch.pc = "wait"
    /\ IF CheckBusinessHours(stealthConfig, now)
       THEN /\ batch' = Idle
            /\ ret' = [op |-> "WaitForBusinessHours", id |-> NoProfile, err |-> ErrNil,
                       sleeps |-> batch.sent]
            /\ now' = now
       ELSE /\ batch' = [batch EXCEPT !.sent = @ + 1]
            /\ ret' = NoCall
            /\ now' = now + 15 * Minute + over
    /\ UNCHANGED <<limits, stealthConfig, mu, goroutines, storage, lastActionTime, cooldownCall>>

\* WaitForBusinessHours called at any of the instants of the first day; a call
\* sleeps no more once WaitHorizon is reached
NextWait ==
    \/ \E t \in GateInstants : Pass(t)
    \/ WaitForBusinessHoursCall
    \/ \E over \in {0, 30} :
          /\ CheckBusinessHours(stealthConfig, now) \/ now < WaitHorizon
          /\ WaitForBusinessHoursStep(over)

SpecWait == InitGate /\ [][NextWait]_vars

\* the loop of WaitForBusinessHours goes on: a goroutine that can run does
SpecWaitFair ==
    SpecWait /\ WF_vars(\E over \in {0, 30} :
                           /\ CheckBusinessHours(stealthConfig, now) \/ now < WaitHorizon
                           /\ WaitForBusinessHoursStep(over))

\* ---------------------------------------------------------------- Searcher
\* Searcher.generateMockProfiles called at time t: `count` profiles, the ID made
\* of the time and the index, the URL of the index alone
generateMockProfiles(count, t) ==
    [i \in 1..count |->
        [ID |-> <<t, i - 1>>, ProfileURL |-> i - 1, State |-> StateDiscovered,
         DiscoveredAt |-> ZeroTime, RequestedAt |-> NoTime, AcceptedAt |-> NoTime,
         CooledDownAt |-> NoTime]]

\* the loops of Searcher.RunSearch over the pages and over the profiles of a
\* page, from profile i of page `page` on; counts[page] is the number of
\* profiles parseSearchResults finds on the page
RECURSIVE SavePages(_, _, _, _, _, _)
SavePages(st, counts, page, i, t, ok) ==
    IF page > Len(counts) THEN st
    ELSE IF i > counts[page] THEN SavePages(st, counts, page + 1, 1, t, ok)
    ELSE LET found == generateMockProfiles(counts[page], t)[i]
             profile == [found EXCEPT !.State = StateDiscovered, !.DiscoveredAt = t]
         IN IF ProfileExists(st, found.ProfileURL)
            THEN SavePages(st, counts, page, i + 1, t, ok)
            ELSE SavePages(SaveProfile(st, profile, ok), counts, page, i + 1, t, ok)

\* Searcher.RunSearch(keywords, maxPages), also reached through
\* SearchByFilters, with maxPages = Len(counts)
RunSearchPages(counts, ok) ==
    /\ batch.pc = "idle"
    /\ LET todaySearches == GetActionCountToday(storage, "search", now)
       IN storage' = LogAction(SavePages(storage, counts, 1, 1, now, ok),
                               "search", NoProfile, TRUE, "", now, ok)
    /\ ret' = [op |-> "RunSearch", id |-> NoProfile, err |-> ErrNil, pages |-> counts]
    /\ UNCHANGED <<now, limits, stealthConfig, mu, goroutines, lastActionTime, cooldownCall, batch>>

\* the default configuration with any daily search limit
InitSearch ==
    /\ now \in StartTimes
    /\ limits \in {[DefaultLimits EXCEPT !.SearchesPerDay = n] : n \in 1..MaxLimit}
    /\ stealthConfig = DefaultStealthConfig
    /\ storage = [data |-> EmptyData, file |-> EmptyData]
    /\ lastActionTime = ZeroTime
    /\ cooldownCall = NoCooldownCall
    /\ batch = Idle
    /\ mu = Unlocked
    /\ goroutines = <<>>
    /\ ret = NoCall

\* searches of one or two pages, each of 3 or 6 results, with requests to the
\* profiles found, the saves succeeding or not
NextSearch ==
    \/ \E t \in WithdrawInstants : Pass(t)
    \/ \E maxPages \in 1..2 : \E counts \in [1..maxPages -> {3, 6}] : \E ok \in BOOLEAN :
          /\ Len(ledger) < MaxLog
          /\ RunSearchPages(counts, ok)
    \/ \E p \in DOMAIN profiles : \E d \in ConnectDurations :
          /\ Len(ledger) < MaxLog
          /\ profiles[p].State = StateDiscovered
          /\ SendConnectionRequestCall(p, d, TRUE, TRUE)

SpecSearch == InitSearch /\ [][NextSearch]_vars

\* ------------------------------------------- Storage called concurrently
\* A goroutine calling in is a record of its call, the index pc in Program of
\* the statement it executes next, a local variable (the ActionLogs slice it
\* has read, the time its sleep ends) and its results (the counts it has
\* taken, the time EnforceCooldown returned).
\* The statements of the Storage methods and of Stealth.EnforceCooldown, in
\* order, as far as they touch the lock and the data.  mu.Lock() is two statements: Lock takes the writer side
\* from other writers and announces the writer, LockWait waits for the readers
\* that hold the lock to leave.
Program(call) ==
    LET update == <<"Lock", "LockWait", "Read", "Write", "Unlock">>
        saveFile == <<"Lock", "LockWait", "Save", "Unlock">>
        count == <<"RLock", "Count", "RUnlock">>
    IN CASE call.name \in {"LogAction", "CleanOldLogs"} -> update \o saveFile \o <<"Return">>
         [] call.name = "GetActionCountSince" -> count \o <<"Return">>
         [] call.name = "GetStats" -> <<"RLock">> \o count \o count \o count \o <<"RUnlock", "Return">>
         [] call.name = "EnforceCooldown" -> <<"IsZero", "Since", "Sleep", "Grant", "Return">>
         [] OTHER -> <<>>

\* the statement goroutine g executes next
Statement(g) ==
    IF goroutines[g].pc \in DOMAIN Program(goroutines[g].call)
    THEN Program(goroutines[g].call)[goroutines[g].pc]
    ELSE "none"

\* a faulty lock, whose writer side is always free: C31 must tell it apart
WriterSideFreeAlways(m) == TRUE

\* sync.RWMutex: no writer holds or waits for the lock
WriterSideFree(m) == m.w = 0

\* a call made in a goroutine of its own
Go(g, call) ==
    /\ goroutines[g].call.name = "none"
    /\ goroutines' = [goroutines EXCEPT ![g].call = call]
    /\ UNCHANGED <<now, limits, stealthConfig, storage, lastActionTime, cooldownCall, batch, mu, ret>>

\* s.mu.Lock(), first half
Lock(g) ==
    /\ Statement(g) = "Lock"
    /\ WriterSideFree(mu)
    /\ mu' = [mu EXCEPT !.w = g]
    /\ goroutines' = [goroutines EXCEPT ![g].pc = @ + 1]
    /\ UNCHANGED <<now, limits, stealthConfig, storage, lastActionTime, cooldownCall, batch, ret>>

\* s.mu.Lock(), second half
LockWait(g) ==
    /\ Statement(g) = "LockWait"
    /\ mu.readers = 0
    /\ goroutines' = [goroutines EXCEPT ![g].pc = @ + 1]
    /\ UNCHANGED <<now, limits, stealthConfig, storage, lastActionTime, cooldownCall, batch, mu, ret>>

\* s.mu.Unlock()
Unlock(g) ==
    /\ Statement(g) = "Unlock"
    /\ mu' = [mu EXCEPT !.w = 0]
    /\ goroutines' = [goroutines EXCEPT ![g].pc = @ + 1]
    /\ UNCHANGED <<now, limits, stealthConfig, storage, lastActionTime, cooldownCall, batch, ret>>

\* s.mu.RLock(): blocks while a writer holds or waits for the lock
RLock(g) ==
    /\ Statement(g) = "RLock"
    /\ WriterSideFree(mu)
    /\ mu' = [mu EXCEPT !.readers = @ + 1]
    /\ goroutines' = [goroutines EXCEPT ![g].pc = @ + 1]
    /\ UNCHANGED <<now, limits, stealthConfig, storage, lastActionTime, cooldownCall, batch, ret>>

\* s.mu.RUnlock()
RUnlock(g) ==
    /\ Statement(g) = "RUnlock"
    /\ mu' = [mu EXCEPT !.readers = @ - 1]
    /\ goroutines' = [goroutines EXCEPT ![g].pc = @ + 1]
    /\ UNCHANGED <<now, limits, stealthConfig, storage, lastActionTime, cooldownCall, batch, ret>>

\* LogAction and CleanOldLogs read s.data.ActionLogs
Read(g) ==
    /\ Statement(g) = "Read"
    /\ goroutines' = [goroutines EXCEPT ![g].pc = @ + 1, ![g].local = ledger]
    /\ UNCHANGED <<now, limits, stealthConfig, storage, lastActionTime, cooldownCall, batch, mu, ret>>

\* LogAction and CleanOldLogs assign s.data.ActionLogs: what they have read
\* with the new record appended (LogAction) or with the old records filtered
\* out (CleanOldLogs)
Write(g) ==
    /\ Statement(g) = "Write"
    /\ LET call == goroutines[g].call
           st == [storage EXCEPT !.data.ActionLogs = goroutines[g].local]
           written == IF call.name = "LogAction"
                      THEN LogAction(st, call.action, NoProfile, TRUE, "", now, FALSE)
                      ELSE CleanOldLogs(st, call.retentionDays, now, FALSE)
       IN storage' = [storage EXCEPT !.data.ActionLogs = written.data.ActionLogs]
    /\ goroutines' = [goroutines EXCEPT ![g].pc = @ + 1]
    /\ UNCHANGED <<now, limits, stealthConfig, lastActionTime, cooldownCall, batch, mu, ret>>

\* Storage.save writes the file
Save(g) ==
    /\ Statement(g) = "Save"
    /\ storage' = save(storage, TRUE)
    /\ goroutines' = [goroutines EXCEPT ![g].pc = @ + 1]
    /\ UNCHANGED <<now, limits, stealthConfig, lastActionTime, cooldownCall, batch, mu, ret>>

\* the loop of GetActionCountSince over s.data.ActionLogs: the count of the
\* GetActionCountSince call, or of GetStats connections_today, messages_today,
\* connections_last_hour in turn
Count(g) ==
    /\ Statement(g) = "Count"
    /\ LET call == goroutines[g].call
           taken == Len(goroutines[g].results)
           count == IF call.name = "GetActionCountSince"
                    THEN GetActionCountSince(storage, call.action, call.since)
                    ELSE CASE taken = 0 -> GetActionCountToday(storage, "connection", now)
                           [] taken = 1 -> GetActionCountToday(storage, "message", now)
                           [] OTHER -> GetActionCountLastHour(storage, "connection", now)
       IN goroutines' = [goroutines EXCEPT ![g].pc = @ + 1, ![g].results = Append(@, count)]
    /\ UNCHANGED <<now, limits, stealthConfig, storage, lastActionTime, cooldownCall, batch, mu, ret>>

\* the call of goroutine g returns
Return(g) ==
    /\ Statement(g) = "Return"
    /\ goroutines' = [goroutines EXCEPT ![g].pc = @ + 1]
    /\ ret' = [op |-> goroutines[g].call.name, id |-> g, err |-> ErrNil,
               results |-> goroutines[g].results]
    /\ UNCHANGED <<now, limits, stealthConfig, storage, lastActionTime, cooldownCall, batch, mu>>

\* a storage with a record of the day before, old enough for CleanOldLogs(1)
\* to remove, and MaxGoroutines goroutines about to call in
InitRace ==
    /\ now = Day + 10 * Hour
    /\ limits = DefaultLimits
    /\ stealthConfig = DefaultStealthConfig
    /\ LET old == [Action |-> "connection", Timestamp |-> 9 * Hour, ProfileID |-> NoProfile,
                   Success |-> TRUE, Error |-> ""]
       IN storage = [data |-> [EmptyData EXCEPT !.ActionLogs = <<old>>],
                     file |-> [EmptyData EXCEPT !.ActionLogs = <<old>>]]
    /\ lastActionTime = ZeroTime
    /\ cooldownCall = NoCooldownCall
    /\ batch = Idle
    /\ mu = Unlocked
    /\ goroutines = [g \in 1..MaxGoroutines |->
                        [call |-> [name |-> "none"], pc |-> 1, local |-> <<>>, results |-> <<>>]]
    /\ ret = NoCall

\* any of LogAction, CleanOldLogs(1), GetActionCountSince and GetStats called
\* in each goroutine, their statements interleaved in any order
NextRace ==
    \/ \E g \in DOMAIN goroutines :
       \E call \in {[name |-> "LogAction", action |-> "connection"],
                    [name |-> "CleanOldLogs", retentionDays |-> 1],
                    [name |-> "GetActionCountSince", action |-> "connection", since |-> 0],
                    [name |-> "GetStats"]} : Go(g, call)
    \/ \E g \in DOMAIN goroutines : Lock(g)
    \/ \E g \in DOMAIN goroutines : LockWait(g)
    \/ \E g \in DOMAIN goroutines : Unlock(g)
    \/ \E g \in DOMAIN goroutines : RLock(g)
    \/ \E g \in DOMAIN goroutines : RUnlock(g)
    \/ \E g \in DOMAIN goroutines : Read(g)
    \/ \E g \in DOMAIN goroutines : Write(g)
    \/ \E g \in DOMAIN goroutines : Save(g)
    \/ \E g \in DOMAIN goroutines : Count(g)
    \/ \E g \in DOMAIN goroutines : Return(g)

SpecRace == InitRace /\ [][NextRace]_vars

\* ------------------------------------ EnforceCooldown called concurrently
\* if lastActionTime.IsZero(): the test; when it is true the goroutine goes on
\* to assign lastActionTime and return
IsZero(g) ==
    /\ Statement(g) = "IsZero"
    /\ goroutines' = [goroutines EXCEPT ![g].pc = IF lastActionTime = ZeroTime THEN 4 ELSE 2]
    /\ UNCHANGED <<now, limits, stealthConfig, storage, lastActionTime, cooldownCall, batch, mu, ret>>

\* elapsed := time.Since(lastActionTime) and the remaining time computed of it:
\* local is the time at which the sleep, if any, ends
Since(g) ==
    /\ Statement(g) = "Since"
    /\ LET remaining == CooldownRemaining(lastActionTime, now, goroutines[g].call.minDelaySeconds)
       IN goroutines' = [goroutines EXCEPT ![g].pc = @ + 1, ![g].local = now + remaining]
    /\ UNCHANGED <<now, limits, stealthConfig, storage, lastActionTime, cooldownCall, batch, mu, ret>>

\* time.Sleep(remaining) returns
Sleep(g) ==
    /\ Statement(g) = "Sleep"
    /\ now >= goroutines[g].local
    /\ goroutines' = [goroutines EXCEPT ![g].pc = @ + 1]
    /\ UNCHANGED <<now, limits, stealthConfig, storage, lastActionTime, cooldownCall, batch, mu, ret>>

\* lastActionTime = time.Now(), after which EnforceCooldown returns
Grant(g) ==
    /\ Statement(g) = "Grant"
    /\ lastActionTime' = now
    /\ goroutines' = [goroutines EXCEPT ![g].pc = @ + 1, ![g].results = <<now>>]
    /\ UNCHANGED <<now, limits, stealthConfig, storage, cooldownCall, batch, mu, ret>>

\* EnforceCooldown called in each goroutine on either of two Stealth objects,
\* the statements interleaved in any order; time passes to the end of a sleep
NextCooldownRace ==
    \/ \E g \in DOMAIN goroutines : \E stealth \in {1, 2} :
          Go(g, [name |-> "EnforceCooldown", stealth |-> stealth,
                 minDelaySeconds |-> ConnectionCooldownSeconds])
    \/ \E g \in DOMAIN goroutines : IsZero(g)
    \/ \E g \in DOMAIN goroutines : Since(g)
    \/ \E g \in DOMAIN goroutines : Statement(g) = "Sleep" /\ Pass(goroutines[g].local)
    \/ \E g \in DOMAIN goroutines : Sleep(g)
    \/ \E g \in DOMAIN goroutines : Grant(g)
    \/ \E g \in DOMAIN goroutines : Return(g)

SpecCooldownRace == InitRace /\ [][NextCooldownRace]_vars

\* ------------------------------------------------------------------ claims
\* the successful records of a category stamped at or after instant t
SuccessfulSince(action, t) ==
    {i \in DOMAIN ledger : ledger[i].Action = action /\ ledger[i].Success /\ ledger[i].Timestamp >= t}

\* the gate checks of a Discovered -> Requested attempt made now: the Activity
\* Gate is open and CanSendMore is true, both as the code computes them
GateCheckPasses ==
    CheckBusinessHours(stealthConfig, now) /\ CanSendMore(storage, limits, now)

\* C1: after any sequence of ProcessDailyConnections runs the number of
\* successful "connection" records since local midnight is at most
\* ConnectionsPerDay and the number in the last hour at most ConnectionsPerHour,
\* and once the budget of a batch is used up no further candidate is sent: the
\* profiles and the ledger stay as they are.
C1_WithinBudget ==
    /\ Cardinality(SuccessfulSince("connection", StartOfDay(now))) <= limits.ConnectionsPerDay
    /\ Cardinality(SuccessfulSince("connection", now - Hour)) <= limits.ConnectionsPerHour

C1_RateBudgetNeverExceeded ==
    /\ []C1_WithinBudget
    /\ [][(batch.pc = "loop" /\ batch.sent >= batch.maxToSend) => storage' = storage]_vars

\* C3: a Discovered -> Requested attempt made while a gate check fails (the
\* Activity Gate is closed or CanSendMore is false) changes no profile and no
\* ledger record, and the call reports an outcome that is neither success (nil)
\* nor an error.
C3_Attempt ==
    \/ batch.pc = "idle" /\ GetProfilesByState(storage, StateDiscovered) # {}
         /\ (batch'.pc = "loop" \/ ret'.op = "ProcessDailyConnections")
    \/ batch.pc = "loop" /\ ret'.op = "SendConnectionRequest"

C3_GateDenialIsNoOp ==
    [][(C3_Attempt /\ ~GateCheckPasses) =>
          /\ storage'.data = storage.data
          /\ ret'.op = "ProcessDailyConnections"
          /\ ret'.err \notin {ErrNil, ErrError}]_vars

\* the timestamp of the last successful record of a category
LastSuccessful(logs, action) ==
    LET idx == {i \in DOMAIN logs : logs[i].Action = action /\ logs[i].Success}
    IN IF idx = {} THEN NoTime
       ELSE logs[CHOOSE i \in idx : \A j \in idx : j <= i].Timestamp

\* C10: within one ProcessDailyConnections batch the ledger timestamps of two
\* consecutive successful connection requests are at least 30 seconds apart.
C10_MinimumSpacing ==
    [][(batch.pc = "loop" /\ batch.sent >= 1 /\ ret'.op = "SendConnectionRequest" /\ ret'.err = ErrNil) =>
          LastSuccessful(ledger', "connection") - LastSuccessful(ledger, "connection")
              >= ConnectionCooldownSeconds]_vars

\* C2: in every step of every call sequence, a profile moves from Discovered to
\* Requested only when the Activity Gate is open and CanSendMore is true.
C2_RequestOnlyWhenPermitted ==
    [][\A p \in DOMAIN profiles :
          (profiles[p].State = StateDiscovered /\ profiles'[p].State = StateRequested)
             => GateCheckPasses]_vars

\* the instants at which the counts are asked for
ProbeInstants ==
    {now, StartOfDay(now), now - Hour} \cup {ledger[i].Timestamp : i \in DOMAIN ledger}

\* C4: after every sequence of LogAction calls, for every category c and every
\* instant t, GetActionCountSince(c, t) is the number of records of category c
\* with Success = true and timestamp >= t, a record stamped exactly at t included.
C4_CountSinceIsInclusive ==
    \A c \in Categories : \A t \in ProbeInstants :
       GetActionCountSince(storage, c, t) = Cardinality(SuccessfulSince(c, t))

\* the limits a configuration may hold, 0 included
ProbeLimits == [ConnectionsPerDay : 0..MaxLimit, ConnectionsPerHour : 0..MaxLimit]

\* C5: CanSendMore is true if and only if the number of successful connection
\* records since midnight is strictly below the daily limit and the number in
\* the last hour is strictly below the hourly limit; with a limit of 0 it is false.
C5_CanSendMoreIffBelowLimits ==
    \A lim \in ProbeLimits :
       CanSendMore(storage, lim, now) <=>
          /\ Cardinality(SuccessfulSince("connection", StartOfDay(now))) < lim.ConnectionsPerDay
          /\ Cardinality(SuccessfulSince("connection", now - Hour)) < lim.ConnectionsPerHour

\* the edges of the connection state machine
AllowedEdges ==
    {<<StateDiscovered, StateRequested>>, <<StateRequested, StateAccepted>>,
     <<StateAccepted, StateCooledDown>>, <<StateRequested, StateDiscovered>>,
     <<StateDiscovered, StateRejected>>, <<StateRequested, StateRejected>>}

\* C6: every change of a stored profile's state made by a Connector operation
\* follows one of the allowed edges.
C6_OnlyAllowedEdges ==
    [][\A p \in DOMAIN profiles :
          profiles'[p].State # profiles[p].State
             => <<profiles[p].State, profiles'[p].State>> \in AllowedEdges]_vars

\* C7: when SendConnectionRequest returns an error for a Discovered profile, the
\* profile is still Discovered with no requested timestamp, in memory and in the
\* file as last written.
C7_FailedRequestLeavesProfile ==
    [][(/\ ret'.op = "SendConnectionRequest"
        /\ ret'.err = ErrError
        /\ profiles[ret'.id].State = StateDiscovered) =>
          /\ profiles'[ret'.id].State = StateDiscovered
          /\ profiles'[ret'.id].RequestedAt = NoTime
          /\ storage'.file.Profiles[ret'.id].State = StateDiscovered
          /\ storage'.file.Profiles[ret'.id].RequestedAt = NoTime]_vars

\* C8: when SendConnectionRequest returns nil for profile p, p is Requested with
\* RequestedAt set to the time of the call, one record (connection, p, success)
\* has been appended to the ledger, the earlier records are as they were and so
\* is every other profile.
C8_SuccessfulRequest ==
    [][(ret'.op = "SendConnectionRequest" /\ ret'.err = ErrNil) =>
          /\ profiles'[ret'.id].State = StateRequested
          /\ profiles'[ret'.id].RequestedAt # NoTime
          /\ profiles'[ret'.id].RequestedAt >= now
          /\ profiles'[ret'.id].RequestedAt <= now'
          /\ Len(ledger') = Len(ledger) + 1
          /\ SubSeq(ledger', 1, Len(ledger)) = ledger
          /\ ledger'[Len(ledger')].Action = "connection"
          /\ ledger'[Len(ledger')].ProfileID = ret'.id
          /\ ledger'[Len(ledger')].Success
          /\ DOMAIN profiles' = DOMAIN profiles
          /\ \A q \in DOMAIN profiles \ {ret'.id} : profiles'[q] = profiles[q]]_vars

\* C8 witness: a request has just succeeded for a profile that was stored beside
\* another profile, after an earlier ledger record.
C8_Witness ==
    /\ ret.op = "SendConnectionRequest"
    /\ ret.err = ErrNil
    /\ profiles[ret.id].State = StateRequested
    /\ Cardinality(DOMAIN profiles) >= 2
    /\ Len(ledger) >= 2
    /\ ledger[Len(ledger)].ProfileID = ret.id

\* C9: the first EnforceCooldown call of the process returns without waiting;
\* every later call with minimum m > 0 returns no earlier than m seconds after
\* the return of the previous call, and sleeps m minus the time already elapsed
\* (plus what the sleep oversleeps), or not at all when m has already elapsed.
C9_CooldownSpacing ==
    [][ret'.op = "EnforceCooldown" =>
          LET m == cooldownCall'.m
              elapsed == now - cooldownCall.granted
          IN /\ cooldownCall.granted = NoTime => now' = now
             /\ (cooldownCall.granted # NoTime /\ m > 0) =>
                   /\ now' >= cooldownCall.granted + m
                   /\ elapsed >= m => now' = now
                   /\ elapsed < m => \E over \in Oversleeps : now' - now = m - elapsed + over]_vars

\* C9 witness: a call with minimum 30 made before 30 seconds had elapsed since
\* the previous call has returned after sleeping.
C9_Witness ==
    /\ ret.op = "EnforceCooldown"
    /\ cooldownCall.m = ConnectionCooldownSeconds
    /\ cooldownCall.waited > 0
    /\ cooldownCall.waited < ConnectionCooldownSeconds

\* C12: in every reachable state each stored profile has one of the five states
\* and a discovery timestamp, a Discovered profile has no later timestamp set,
\* an Accepted one has RequestedAt and AcceptedAt set, a CooledDown one all
\* three, AcceptedAt is set only with RequestedAt and CooledDownAt only with
\* AcceptedAt, and no set timestamp precedes DiscoveredAt.
C12_TimestampsFollowTransitions ==
    \A p \in DOMAIN profiles :
       LET pr == profiles[p]
           set == {pr.RequestedAt, pr.AcceptedAt, pr.CooledDownAt} \ {NoTime}
       IN /\ pr.State \in ProfileStates
          /\ pr.DiscoveredAt # NoTime
          /\ pr.State = StateDiscovered => set = {}
          /\ pr.State = StateRequested => pr.RequestedAt # NoTime
          /\ pr.State = StateAccepted => pr.RequestedAt # NoTime /\ pr.AcceptedAt # NoTime
          /\ pr.State = StateCooledDown =>
                pr.RequestedAt # NoTime /\ pr.AcceptedAt # NoTime /\ pr.CooledDownAt # NoTime
          /\ pr.AcceptedAt # NoTime => pr.State \in {StateAccepted, StateCooledDown}
          /\ pr.CooledDownAt # NoTime => pr.State = StateCooledDown
          /\ \A t \in set : t >= pr.DiscoveredAt

\* C15: whenever SendConnectionRequest reports success, the record it logged has
\* been written to the file: a LogAction that fails to persist makes the call
\* return an error.
C15_LogFailureIsReported ==
    [][(ret'.op = "SendConnectionRequest" /\ ret'.err = ErrNil) =>
          storage'.file.ActionLogs = storage'.data.ActionLogs]_vars

InWindow(start, end) ==
    LET minutes == (now % Day) \div Minute
    IN ParseHHMM(start) <= minutes /\ minutes <= ParseHHMM(end)

\* C16: CheckBusinessHours returns true when the business-hours feature is
\* disabled, and otherwise (businessStart <= now <= businessEnd) and not
\* (breakStart <= now <= breakEnd) with the break feature enabled, the times
\* compared as times of day, both bounds included.
C16_CheckBusinessHours ==
    ret.op = "CheckBusinessHours" =>
       ret.value =
          IF ~stealthConfig.BusinessHoursEnabled THEN TRUE
          ELSE /\ InWindow(stealthConfig.BusinessHoursStart, stealthConfig.BusinessHoursEnd)
               /\ ~(/\ stealthConfig.BreakTimeEnabled
                    /\ InWindow(stealthConfig.BreakTimeStart, stealthConfig.BreakTimeEnd))

\* C17: after any sequence of SendMessage, SendBulkMessages and
\* ProcessAcceptedConnections calls, the number of message records sent within
\* one day (from local midnight, included, to the next) and the number of
\* successful "message" ledger records of that day are at most MessagesPerDay.
C17_MessagesPerDayNeverExceeded ==
    \A m \in {0, Day} :
       /\ Cardinality({id \in DOMAIN messages :
                          messages[id].SentAt >= m /\ messages[id].SentAt < m + Day})
             <= limits.MessagesPerDay
       /\ Cardinality(SuccessfulSince("message", m) \ SuccessfulSince("message", m + Day))
             <= limits.MessagesPerDay

\* C18: every profile has at most one message record.
C18_AtMostOneMessagePerProfile ==
    \A p \in DOMAIN profiles : Cardinality(GetMessagesByProfile(storage, p)) <= 1

\* C19: Rejected and CooledDown are terminal: no operation changes the state of
\* such a profile, appends a "connection" or "message" ledger record for it or
\* creates a message record for it; and every profile enters the store as
\* Discovered.
C19_TerminalStates ==
    [][/\ \A p \in DOMAIN profiles :
             profiles[p].State \in {StateRejected, StateCooledDown} =>
                /\ p \in DOMAIN profiles'
                /\ profiles'[p].State = profiles[p].State
                /\ \A i \in DOMAIN ledger' \ DOMAIN ledger :
                      ~(ledger'[i].ProfileID = p /\ ledger'[i].Action \in {"connection", "message"})
                /\ GetMessagesByProfile(storage', p) = GetMessagesByProfile(storage, p)
       /\ \A p \in DOMAIN profiles' \ DOMAIN profiles :
             profiles'[p].State = StateDiscovered]_vars

\* C13: the persisted snapshot is replaced atomically: whenever the process is
\* interrupted the file is a complete snapshot, the previous one or the new one,
\* never an empty, truncated or partially written file.
C13_SnapshotNeverPartial == storage.file # TruncatedFile

\* C14: at every point at which the process can be interrupted and restarted
\* from the file, each profile the file holds as Requested has a successful
\* "connection" record in the file's ledger.
C14_RequestedIsDurablyLogged ==
    storage.file # TruncatedFile =>
       \A p \in DOMAIN storage.file.Profiles :
          storage.file.Profiles[p].State = StateRequested =>
             \E i \in DOMAIN storage.file.ActionLogs :
                /\ storage.file.ActionLogs[i].Action = "connection"
                /\ storage.file.ActionLogs[i].ProfileID = p
                /\ storage.file.ActionLogs[i].Success

\* C11: the action ledger is append-only: a step of any operation of any
\* module other than a CleanOldLogs call leaves every record of the ledger as
\* it is and where it is (category, timestamp, success flag, entity reference,
\* relative order), adding records at the end only.
C11_LedgerAppendOnly ==
    [][~CleanOldLogsStep =>
          /\ Len(ledger') >= Len(ledger)
          /\ SubSeq(ledger', 1, Len(ledger)) = ledger]_vars

\* C11 witness: the ledger holds records appended by the search, the Connector
\* and the Authenticator, the last of them by a login that just succeeded.
C11_Witness ==
    /\ ret.op = "Login"
    /\ ret.err = ErrNil
    /\ Len(ledger) >= 4
    /\ ledger[Len(ledger)].Action = "login_success"
    /\ \E i, j \in DOMAIN ledger :
          i < j /\ ledger[i].Action = "search" /\ ledger[j].Action = "connection"

\* C21: a CleanOldLogs(retentionDays) call removes exactly the records older
\* than the horizon (now minus retentionDays days) and keeps every other record
\* in its place; so for every category and every instant t at or after the
\* horizon GetActionCountSince(category, t) is the same before and after it.
C21_TrimRemovesOlderOnly ==
    [][\A retentionDays \in RetentionDays :
          CleanOldLogsCall(retentionDays, TRUE) =>
             LET horizon == now - retentionDays * Day
                 notOlder(log) == log.Timestamp >= horizon
             IN /\ ledger' = SelectSeq(ledger, notOlder)
                /\ \A c \in Categories : \A t \in ProbeInstants \cup {horizon} :
                      t >= horizon =>
                         GetActionCountSince(storage', c, t) = GetActionCountSince(storage, c, t)]_vars

\* C22: an EnforceCooldown call with a zero or negative minimum is a no-op: it
\* returns without waiting and leaves the shared last-granted timestamp as it
\* was.
C22_ZeroMinimumIsNoOp ==
    [][(ret'.op = "EnforceCooldown" /\ cooldownCall'.m <= 0) =>
          /\ now' = now
          /\ lastActionTime' = lastActionTime]_vars

\* C23: the spacing clock is shared by all categories: when EnforceCooldown is
\* called for one category (connection, minimum 30 s, or message, minimum 60 s)
\* after a grant to the other one at time t, it returns no earlier than t plus
\* its own minimum.
C23_SharedSpacingClock ==
    [][(/\ cooldownCall' # cooldownCall
        /\ cooldownCall.granted # NoTime
        /\ {cooldownCall.m, cooldownCall'.m} =
              {ConnectionCooldownSeconds, MessageCooldownSeconds}) =>
          /\ lastActionTime = cooldownCall.granted
          /\ now' >= cooldownCall.granted + cooldownCall'.m
          /\ lastActionTime' = now']_vars

\* C23 witness: a message sent less than 60 s after a connection request has
\* been held back by the cooldown until 60 s after the grant to the request.
C23_Witness ==
    /\ ret.op = "SendMessage"
    /\ cooldownCall.m = MessageCooldownSeconds
    /\ cooldownCall.waited > 0
    /\ \E i, j \in DOMAIN ledger :
          /\ ledger[i].Action = "connection" /\ ledger[i].Success
          /\ ledger[j].Action = "message" /\ ledger[j].Success
          /\ ledger[j].Timestamp < ledger[i].Timestamp + MessageCooldownSeconds
          /\ cooldownCall.granted = ledger[i].Timestamp + MessageCooldownSeconds

\* C24: the daily count that gates a connection request is taken over the
\* rolling window [now - 24h, now]: in every 24-hour span, spans across local
\* midnight included, at most ConnectionsPerDay successful connection requests
\* are made.
C24_RollingDailyWindow ==
    \A i \in DOMAIN ledger :
       (ledger[i].Action = "connection" /\ ledger[i].Success) =>
          Cardinality({j \in SuccessfulSince("connection", ledger[i].Timestamp - Day) :
                          ledger[j].Timestamp <= ledger[i].Timestamp})
             <= limits.ConnectionsPerDay

\* C25: Login always terminates, makes at most CheckpointRetries attempts in one
\* invocation, stops at the first successful attempt, and after
\* CheckpointRetries failed attempts returns an error without attempting again.
C25_LoginIsBounded ==
    /\ [](batch.pc = "login" => batch.sent <= CheckpointRetries)
    /\ [][/\ (Len(ledger') > Len(ledger) /\ ledger'[Len(ledger) + 1].Action = "login_attempt") =>
                /\ batch.pc = "login"
                /\ batch.sent < CheckpointRetries
                /\ batch'.pc = "login" => batch'.sent = batch.sent + 1
          /\ (ret'.op = "Login" /\ ret'.err = ErrNil /\ batch.pc = "login") =>
                /\ batch' = Idle
                /\ ledger'[Len(ledger')].Action = "login_success"
          /\ (ret'.op = "Login" /\ ret'.err = ErrError) =>
                /\ batch.pc = "login"
                /\ batch.sent = CheckpointRetries
                /\ batch' = Idle
                /\ ledger' = ledger]_vars
    /\ (batch.pc = "login" ~> batch.pc = "idle")

\* C25 witness: a Login has returned its error after CheckpointRetries failed
\* attempts, a checkpoint among them.
C25_Witness ==
    /\ ret.op = "Login"
    /\ ret.err = ErrError
    /\ Len(ledger) = CheckpointRetries
    /\ \A i \in DOMAIN ledger : ledger[i].Action = "login_attempt"
    /\ now >= 10 * Hour + Minute

\* C26: the backoff after consecutive checkpoint failures is exponential: the
\* wait after a checkpoint is at least twice the wait after the checkpoint of
\* the attempt before it.
C26_BackoffDoubles ==
    [][(/\ batch.pc = "login" /\ batch'.pc = "login"
        /\ ret.op = "performLogin" /\ ret.checkpoint
        /\ ret'.op = "performLogin" /\ ret'.checkpoint) =>
          ret'.waited >= 2 * ret.waited]_vars

\* C26 witness: the last allowed attempt has met a checkpoint after the one
\* before it had, and Login has waited nine minutes after it.
C26_Witness ==
    /\ batch.pc = "login"
    /\ batch.sent = CheckpointRetries
    /\ ret.op = "performLogin"
    /\ ret.checkpoint
    /\ ret.waited = LoginBackoff(CheckpointRetries)
    /\ now >= 10 * Hour + LoginBackoff(CheckpointRetries) + LoginBackoff(CheckpointRetries - 1)

\* C27: for all ints min <= max, randomInt(min, max) returns a value v with
\* min <= v <= max, and every value of min..max can be returned; for all
\* min >= max it returns min, without panicking.
C27_RandomIntInRange ==
    ret.op = "randomInt" =>
       /\ ret.err = ErrNil
       /\ ret.min <= ret.max => (ret.min <= ret.value /\ ret.value <= ret.max)
       /\ ret.min <= ret.max =>
             \A v \in ret.min..ret.max : [panic |-> FALSE, value |-> v] \in randomInt(ret.min, ret.max)
       /\ ret.min >= ret.max => ret.value = ret.min

\* C28: the number of points MoveMouse samples for one move lies within
\* [10, 100] and is non-decreasing in the distance from start to end.
C28_SampleCountClamped ==
    ret.op = "MoveMouse" =>
       /\ 10 <= ret.samples /\ ret.samples <= 100
       /\ \A to \in MouseTargets :
             \A steps \in calculateSteps(ret.from.X, ret.from.Y, to.X, to.Y) :
                LET distanceSquared(p) ==
                       (p.X - ret.from.X) * (p.X - ret.from.X) + (p.Y - ret.from.Y) * (p.Y - ret.from.Y)
                IN distanceSquared(to) <= distanceSquared(ret.to) => steps + 1 <= ret.samples

\* C29: cubicBezier at t = 0 is P0 and at t = 1 is P3, for all control points:
\* the first sample of a MoveMouse path is the start point and the last one the
\* target.
C29_BezierEndpoints ==
    ret.op = "MoveMouse" =>
       /\ ret.first = [X |-> ret.scale * ret.from.X, Y |-> ret.scale * ret.from.Y]
       /\ ret.last = [X |-> ret.scale * ret.to.X, Y |-> ret.scale * ret.to.Y]

\* C29 witness: a move of 100 steps to a distant target along a curve whose
\* control points lie off the straight line.
C29_Witness ==
    /\ ret.op = "MoveMouse"
    /\ ret.steps = 100
    /\ ret.to = [X |-> 400, Y |-> 500]
    /\ ret.cp1 = [X |-> 140, Y |-> 270]
    /\ ret.cp2 = [X |-> 360, Y |-> 330]
    /\ ret.first = [X |-> ret.scale * 100, Y |-> ret.scale * 100]
    /\ ret.last = [X |-> ret.scale * 400, Y |-> ret.scale * 500]

\* C30: with TypoCorrection = false, for every text and every typo
\* probability, TypeHumanLike simulates no wrong keystroke and no deletion and
\* adds no typo delay: it sleeps the keystroke delays and the word-boundary
\* pauses only.
C30_NoTypoWithoutCorrection ==
    (ret.op = "TypeHumanLike" /\ ~stealthConfig.TypoCorrection) =>
       /\ ret.account.keys = Len(ret.text)
       /\ ret.account.wrong = 0
       /\ ret.account.deletions = 0
       /\ ret.account.typoDelay = 0
       /\ ret.account.slept = ret.account.keyDelay + ret.account.pause

\* C30 witness: with the correction disabled and a non-zero typo probability
\* a text with a space was typed, the typo branch taken at each character.
C30_Witness ==
    /\ ret.op = "TypeHumanLike"
    /\ ~stealthConfig.TypoCorrection
    /\ stealthConfig.TypoChance > 0
    /\ Len(ret.text) >= 2
    /\ ret.account.typos = Len(ret.text)
    /\ ret.account.pause > 0
    /\ ret.account.wrong = 0

\* C31: the ledger is guarded by one read/write lock: in every interleaving of
\* concurrent LogAction, CleanOldLogs and count calls no appended record is
\* lost (each LogAction appends its record to the ledger as it is, and N
\* LogAction calls leave N new records), and no count is taken while a writer
\* is between its Lock and its Unlock.
C31_LockedLedger ==
    /\ [][\A g \in DOMAIN goroutines :
             (/\ Statement(g) = "Write"
              /\ goroutines'[g].pc = goroutines[g].pc + 1
              /\ goroutines[g].call.name = "LogAction") =>
                /\ Len(ledger') = Len(ledger) + 1
                /\ SubSeq(ledger', 1, Len(ledger)) = ledger
                /\ ledger'[Len(ledger')].Timestamp = now]_vars
    /\ []((\A g \in DOMAIN goroutines : Statement(g) = "none" /\ goroutines[g].call.name # "none") =>
             Cardinality({i \in DOMAIN ledger : ledger[i].Timestamp = now}) =
                Cardinality({g \in DOMAIN goroutines : goroutines[g].call.name = "LogAction"}))
    /\ [][\A g \in DOMAIN goroutines :
             (Statement(g) = "Count" /\ goroutines'[g].pc = goroutines[g].pc + 1) =>
                /\ \A h \in DOMAIN goroutines : Statement(h) \notin {"Read", "Write", "Save"}
                /\ ledger' = ledger
                /\ mu.readers > 0]_vars

\* C31 witness: two concurrent LogAction calls have returned and the ledger
\* holds the old record and their two records.
C31_Witness ==
    /\ \A g \in DOMAIN goroutines :
          goroutines[g].call.name = "LogAction" /\ Statement(g) = "none"
    /\ Len(ledger) = 1 + Cardinality(DOMAIN goroutines)
    /\ storage.file = storage.data

\* C38: GetStats always terminates: while a GetStats call is in progress, with
\* any writers calling in concurrently, some goroutine can take a step (the
\* goroutines never all wait for each other on the lock).
C38_GetStatsTerminates ==
    (\E g \in DOMAIN goroutines :
        goroutines[g].call.name = "GetStats" /\ Statement(g) # "none") =>
       ENABLED (\E h \in DOMAIN goroutines :
                   \/ Lock(h) \/ LockWait(h) \/ Unlock(h) \/ RLock(h) \/ RUnlock(h)
                   \/ Read(h) \/ Write(h) \/ Save(h) \/ Count(h) \/ Return(h))

C33_DeniedMessageIsDeferred ==
    [][(/\ ret'.op = "SendMessage"
        /\ GetActionCountToday(storage, "message", now) >= limits.MessagesPerDay) =>
          /\ storage' = storage
          /\ ret'.err = ErrNil]_vars

\* C34: searches are rate-limited through the ledger: the number of
\* successful search records of the day never exceeds SearchesPerDay.
C34_SearchesPerDayNeverExceeded ==
    GetActionCountToday(storage, "search", now) <= limits.SearchesPerDay

\* C35: discovery deduplicates by URL: no two stored profiles have the same
\* ProfileURL; a RunSearch leaves every profile already stored as it was; and
\* each profile it stores is Discovered, its discovery timestamp the time of
\* the search.
C35_DiscoveryDeduplicates ==
    /\ [](\A p, q \in DOMAIN profiles :
             profiles[p].ProfileURL = profiles[q].ProfileURL => p = q)
    /\ [][ret'.op = "RunSearch" =>
            /\ \A p \in DOMAIN profiles :
                  p \in DOMAIN storage'.data.Profiles /\ storage'.data.Profiles[p] = profiles[p]
            /\ \A p \in DOMAIN storage'.data.Profiles \ DOMAIN profiles :
                  /\ storage'.data.Profiles[p].State = StateDiscovered
                  /\ storage'.data.Profiles[p].DiscoveredAt = now]_vars

\* C35 witness: a later search of two pages has found the URLs of the first
\* search again, one of them of a profile since requested, and three new ones.
C35_Witness ==
    /\ ret.op = "RunSearch"
    /\ ret.pages = <<3, 6>>
    /\ Cardinality(DOMAIN profiles) = 6
    /\ \E p, q \in DOMAIN profiles :
          /\ profiles[p].State = StateRequested
          /\ profiles[p].DiscoveredAt < profiles[q].DiscoveredAt
          /\ profiles[q].DiscoveredAt = now

\* C36: two Stealth objects space their callers independently: an
\* EnforceCooldown call has to sleep only if a call on the same Stealth object
\* was granted before.
C36_IndependentInstances ==
    [][\A h \in DOMAIN goroutines :
          (/\ Statement(h) = "Since"
           /\ goroutines'[h].pc = goroutines[h].pc + 1
           /\ goroutines'[h].local > now) =>
             \E g \in DOMAIN goroutines :
                /\ g # h
                /\ goroutines[g].call.name = "EnforceCooldown"
                /\ goroutines[g].call.stealth = goroutines[h].call.stealth
                /\ goroutines[g].results # <<>>]_vars

\* C37: the last-granted timestamp is guarded against concurrent use: in every
\* interleaving of concurrent EnforceCooldown(m) calls any two returns are at
\* least m seconds apart.
C37_ConcurrentGrantsSpaced ==
    \A g, h \in DOMAIN goroutines :
       (g # h /\ goroutines[g].results # <<>> /\ goroutines[h].results # <<>>) =>
          \/ goroutines[g].results[1] >= goroutines[h].results[1] + goroutines[g].call.minDelaySeconds
          \/ goroutines[h].results[1] >= goroutines[g].results[1] + goroutines[h].call.minDelaySeconds

\* C39: WaitForBusinessHours returns only at an instant at which
\* CheckBusinessHours is true, at once and without sleeping if the gate is
\* open when it is called, and changes no profile and no ledger record; when
\* the configured window is at least 15 minutes long, it eventually returns,
\* for which the gate must be open at some minute of the day.
C39_WaitReturnsWhenOpen ==
    /\ [][ret'.op = "WaitForBusinessHours" =>
            /\ CheckBusinessHours(stealthConfig, now')
            /\ storage' = storage]_vars
    /\ [][(batch.pc = "wait" /\ batch.sent = 0 /\ CheckBusinessHours(stealthConfig, now)
           /\ batch' # batch) =>
             (ret'.op = "WaitForBusinessHours" /\ ret'.sleeps = 0 /\ now' = now)]_vars
    /\ ((/\ batch.pc = "wait"
         /\ ParseHHMM(stealthConfig.BusinessHoursStart) + 15 <=
               ParseHHMM(stealthConfig.BusinessHoursEnd))
        ~> batch.pc = "idle")
    /\ []((/\ batch.pc = "wait"
            /\ ParseHHMM(stealthConfig.BusinessHoursStart) + 15 <=
                  ParseHHMM(stealthConfig.BusinessHoursEnd)) =>
              \E minute \in 0..(24 * 60 - 1) : CheckBusinessHours(stealthConfig, minute * Minute))

====
